---- MODULE Spec2Model ----
(***************************************************************************)
(* Navigation stack of polymer: Chain (chain.go), atom.Chain               *)
(* (atom/chain.go) and atom.Stack (atom/stack.go).  The three types carry  *)
(* the same code line for line; the model follows chain.go and names the   *)
(* twin lines of atom/stack.go where they differ (the error effect).       *)
(*                                                                         *)
(* A component (Atom / Model) is an opaque value 1..NumAtoms; 0 is the nil *)
(* interface value.  What a leaf component's Update returns is up to the   *)
(* component: the model draws it from every (next, cmd) pair.              *)
(***************************************************************************)
EXTENDS Integers, Sequences, FiniteSets, TLC

\* ------------------------------------------------------------------ bounds
NumAtoms == 2
MaxDepth == 3
NumVals == 2
MaxNest == 3

\* ------------------------------------------------------------ data
Nil == 0
Atoms == 1..NumAtoms
AtomOrNil == Atoms \cup {Nil}

\* The components that implement Initializer (have an Init method).
Initializers == {a \in Atoms : a % 2 = 1}

\* tea.Cmd values, told apart by what produced them.
NoCmd == [kind |-> "nil", of |-> Nil]
InitCmd(a) == [kind |-> "init", of |-> a]
UserCmd == [kind |-> "user", of |-> Nil]
ErrChainEmpty == [kind |-> "error", of |-> Nil]
LeafCmds == {NoCmd, UserCmd}

\* What a component's View returns, and the empty string.
ViewOf(a) == [text |-> "view", of |-> a]
EmptyString == [text |-> "", of |-> Nil]
NoOut == [text |-> "none", of |-> Nil]

\* Messages: the four structural ones and the rest.
StructuralKinds == {"PushMsg", "ReplaceMsg", "ResetMsg", "PopMsg"}
OtherKinds == {"KeyMsg"}
PushMsg(a) == [kind |-> "PushMsg", State |-> a]
ReplaceMsg(a) == [kind |-> "ReplaceMsg", State |-> a]
ResetMsg(a) == [kind |-> "ResetMsg", State |-> a]
PopMsg == [kind |-> "PopMsg", State |-> Nil]
OtherMsg(k) == [kind |-> k, State |-> Nil]

\* A call the stack makes on a component: its method, the receiver, the
\* message kind passed (Update) and the next component returned (Update).
InitCall(a) == [op |-> "Init", on |-> a, arg |-> "", ret |-> Nil]
UpdateCall(a, k, next) == [op |-> "Update", on |-> a, arg |-> k, ret |-> next]
ViewCall(a) == [op |-> "View", on |-> a, arg |-> "", ret |-> Nil]

VARIABLES
  stack,     \* Chain.stack
  panicked,  \* a Go panic has unwound the program
  cmd,       \* the tea.Cmd the last Update / Init returned
  out,       \* the string the last View returned
  calls,     \* the calls the last operation made on components
  seed,      \* history: the component NewChain was given
  msg,       \* history: the last operation (message dispatched, or Init / View)
  pre,       \* history: the stack before the last operation
  msg2,      \* history: the operation before the last
  pre2       \* history: the stack before that operation

svars == <<stack, panicked, cmd, out, calls, seed, msg, pre, msg2, pre2>>

(***************************************************************************)
(* Slot routers: router.Router (two versions in router/router.go),         *)
(* router.Dual, multi.Router (two versions) and router.Router3.  Their     *)
(* Route, Render and SetTarget are the same code; they differ in the       *)
(* number of slots and in what applying a function to an absent slot does. *)
(*                                                                         *)
(* A slot is a Routable[T] interface value: nil, a value of the slot's     *)
(* type T (1..NumVals), or a value of another type that implements         *)
(* Routable[T] (Foreign).  T is a struct type (its zero value is a         *)
(* component, its Update cannot return nil) or an interface type (its zero *)
(* value is nil and its Update may return nil, which leaves the slot nil). *)
(***************************************************************************)
TVals == 1..NumVals
Foreign == NumVals + 1
SlotVals == TVals \cup {Foreign, Nil}
TypeKinds == {"struct", "iface"}
Flavors == {"Dual", "RouterV1", "Router3"}

\* Slot / DualSlot: Skip, then T (A), U (B), V.
SlotSkip == 0
SlotT == 1
SlotU == 2
SlotV == 3
Targets == {SlotSkip, SlotT, SlotU, SlotV}

ErrUnknownSlot == [kind |-> "unknownSlot", of |-> Nil]

VARIABLES
  rflavor,   \* which router type this is
  rkind,     \* the kind of the slots' type parameters
  rslots,    \* SlotT / SlotU / SlotV (slotA / slotB)
  rtarget,   \* target
  rlast,     \* history: the last Route, SetTarget or Apply and what it returned
  rout       \* the string Render returned, if Render was the last call

rvars == <<rflavor, rkind, rslots, rtarget, rlast, rout>>

\* auto.Slot
SlotInvalid == -1
SlotPrimary == 0
SlotOverride == 1
AutoSlots == {SlotPrimary, SlotOverride}

VARIABLES
  akind,     \* the kind of the Auto's type parameter
  aslots,    \* primary / override
  apanicked, \* configureRoutable panicked
  alast,     \* history: the last Set, SetIfNil, Configure or Route and what it returned
  aout,      \* the string Render returned, if Render was the last call
  aepisode   \* history: the primary as it was when the override was set

avars == <<akind, aslots, apanicked, alast, aout, aepisode>>

\* The messages a Lens tells apart: errors, trace messages, the rest.
LensKinds == {"error", "TraceMsg"} \cup OtherKinds
Hooks == {"OnError", "OnTrace", "BeforeUpdate", "AfterUpdate", "OnView"}

\* The two Lens types: polymer.Lens (lens.go) and trace.Lens (trace/lens.go).
LensFlavors == {"polymer", "trace"}

VARIABLES
  lflavor,   \* which Lens type this is
  lmodel,    \* Lens.Model, the wrapped component
  lhooks,    \* the hooks that are set
  lpanicked, \* Update or View was called on a Lens that wraps nil
  llast,     \* history: the last Update, what the wrapped Update and the Lens returned
  lout       \* what View returned, if View was the last call

lvars == <<lflavor, lmodel, lhooks, lpanicked, llast, lout>>

VARIABLES
  xflavor,   \* resolve (lens.go) or resolve_atom (trace/lens.go)
  xterm,     \* the component handed to resolve
  xres,      \* what resolve returned for xterm
  xres2      \* what resolve returned for that result

xvars == <<xflavor, xterm, xres, xres2>>

\* The two Host types: polymer.Host (host.go) and poly.Host (poly/host.go).
HostFlavors == {"polymer", "poly"}

VARIABLES
  hflavor,   \* which Host type this is
  hstate,    \* Host.state, the root component
  hstatus,   \* running, gone (Update returned nil), exited (log.Fatal) or panicked
  hlast,     \* history: the last Update and what it returned
  hout       \* what View returned, if View was the last call

hvars == <<hflavor, hstate, hstatus, hlast, hout>>

\* The two versions of poly.Atom: SetContext part of Atomic, or ContextAware.
AtomVersions == {"Atomic", "ContextAware"}

VARIABLES
  tversion,  \* which version of poly.Atom this is
  tmodel,    \* Atom.Model
  tctx,      \* the context the model was last handed by SetContext
  tlast,     \* history: the last Update and what it returned
  tout       \* what View returned, if View was the last call

tvars == <<tversion, tmodel, tctx, tlast, tout>>

VARIABLES
  dmodel,    \* AtomAdapter.Model
  dname,     \* AtomAdapter.AtomName
  dlast      \* history: the last Update, and Name() before the first Update

dvars == <<dmodel, dname, dlast>>

nvars == <<xvars, hvars, tvars, dvars>>

VARIABLES
  pending    \* the effects (tea.Cmd) returned to the runtime and not yet delivered

qvars == <<pending>>

VARIABLES
  current,   \* util: var current uint32
  issued,    \* history: the ids returned by the calls before the last
  ilast      \* history: the id the last call returned

ivars == <<current, issued, ilast>>

\* observability.TraceLevel
TraceLevelOff == 0
TraceLevelError == 1
TraceLevelWarn == 2
TraceLevelInfo == 3
TraceLevelDebug == 4
TraceLevels == {TraceLevelOff, TraceLevelError, TraceLevelWarn, TraceLevelInfo, TraceLevelDebug}
\* The MemoryTracer values of the program.
Tracers == 1..NumVals

VARIABLES
  ctracers,  \* CompositeTracer.tracers
  mlevel,    \* MemoryTracer.level of each tracer
  mevents,   \* MemoryTracer.events of each tracer: the levels of the events stored
  clast      \* history: the last call on the composite and what it returned

cvars == <<ctracers, mlevel, mevents, clast>>

\* The routers that have a SetContext: multi.Router and auto.Auto.
ContextRouters == {"multi", "auto"}

VARIABLES
  kflavor,   \* which router this is
  knil,      \* the *Router / *Auto passed to SetContext is nil
  kslots,    \* slotT, slotU / primary, override
  ktarget,   \* multi.Router.target
  kctx,      \* the context each slot's component holds
  klast      \* history: the last SetContext and the calls it made

kvars == <<kflavor, knil, kslots, ktarget, kctx, klast>>

\* The keys and events a Menu tells apart.
MenuKinds == {"WindowSizeMsg", "enter", "esc"} \cup OtherKinds

VARIABLES
  gslots,    \* Menu.Router: slotT (the list.Model) and slotU (the activated item)
  gtarget,   \* Menu.Router.target
  gsel,      \* the list's SelectedItem()
  gctx,      \* Menu.ctx
  ggone,     \* Menu.Update returned nil
  glast,     \* history: the last Update and what it returned
  gout       \* the string View returned, if View was the last call

gvars == <<gslots, gtarget, gsel, gctx, ggone, glast, gout>>

VARIABLES
  ostate,    \* ContextHost.Host.state
  octx,      \* ContextHost.ctx (what it points to)
  ostatus,   \* running, or how the program ended
  olast      \* history: the last Update, what it forwarded and what it returned

ovars == <<ostate, octx, ostatus, olast>>

wvars == <<qvars, ivars, cvars, kvars, gvars, ovars>>

vars == <<svars, rvars, avars, lvars, nvars, wvars>>

NoRender == [out |-> NoOut, slot |-> SlotSkip]
NoOp == [op |-> "None", arg |-> Nil, fn |-> Nil, pre |-> <<>>, pretarget |-> SlotSkip,
         cmd |-> NoCmd, calls |-> <<>>]

\* The router is not in use.
RouterIdle ==
  /\ rflavor = "Dual"
  /\ rkind = "struct"
  /\ rslots = <<Nil, Nil, Nil>>
  /\ rtarget = SlotSkip
  /\ rlast = NoOp
  /\ rout = NoRender

NoEpisode == [phase |-> "none", primary |-> Nil, routed |-> FALSE]
NilFn == [op |-> "nil", v |-> Nil]
AutoNoOp == [op |-> "None", slot |-> SlotInvalid, val |-> Nil, fn |-> NilFn,
             pre |-> [s \in AutoSlots |-> Nil], cmd |-> NoCmd, calls |-> <<>>]
AutoIdle ==
  /\ akind = "struct"
  /\ aslots = [s \in AutoSlots |-> Nil]
  /\ apanicked = FALSE
  /\ alast = AutoNoOp
  /\ aout = NoRender
  /\ aepisode = NoEpisode

\* What Lens.Update hands its owner: nil, or the Lens around a model.
LensRet(absent, m) == [absent |-> absent, model |-> m]
NoUpdate == [kind |-> "None", pre |-> Nil, next |-> Nil, lcmd |-> NoCmd,
             ret |-> LensRet(TRUE, Nil), cmd |-> NoCmd, hooks |-> <<>>]
NoView == [out |-> NoOut, pre |-> Nil, hooks |-> <<>>]
LensIdle ==
  /\ lflavor = "polymer"
  /\ lmodel = Nil
  /\ lhooks = {}
  /\ lpanicked = FALSE
  /\ llast = NoUpdate
  /\ lout = NoView

\* A component as resolve sees it: the wrappers around it, outermost first,
\* and what is inside the innermost one.
Term(ws, inner) == [wraps |-> ws, leaf |-> inner]
NilTerm == Term(<<>>, [kind |-> "nil", of |-> Nil])
NoRes == [state |-> "none", term |-> NilTerm]
ResolveIdle ==
  /\ xflavor = "polymer"
  /\ xterm = NilTerm
  /\ xres = NoRes
  /\ xres2 = NoRes

HostNoOp == [kind |-> "None", pre |-> Nil, next |-> Nil, lcmd |-> NoCmd,
             absent |-> FALSE, cmd |-> NoCmd, calls |-> <<>>]
HostIdle ==
  /\ hflavor = "polymer"
  /\ hstate = Nil
  /\ hstatus = "running"
  /\ hlast = HostNoOp
  /\ hout = NoOut

AtomNoOp == [kind |-> "None", ctx |-> Nil, pre |-> Nil, next |-> Nil, lcmd |-> NoCmd,
             absent |-> FALSE, cmd |-> NoCmd, calls |-> <<>>]
AtomIdle ==
  /\ tversion = "Atomic"
  /\ tmodel = Nil
  /\ tctx = Nil
  /\ tlast = AtomNoOp
  /\ tout = NoOut

NoName == [kind |-> "empty", of |-> Nil]
AdapterNoOp == [kind |-> "None", updates |-> 0, name0 |-> NoName, name |-> NoName]
AdapterIdle ==
  /\ dmodel = Nil
  /\ dname = NoName
  /\ dlast = AdapterNoOp

NewIdle == ResolveIdle /\ HostIdle /\ AtomIdle /\ AdapterIdle

RuntimeIdle == pending = {}

\* An id returned: a uint32 (num) or a string (str).
Uint32Id(n) == [type |-> "uint32", num |-> n, str |-> <<>>]
StringId(s) == [type |-> "string", num |-> 0, str |-> s]
NoId == [type |-> "none", num |-> 0, str |-> <<>>]
IdsIdle ==
  /\ current = 1
  /\ issued = {}
  /\ ilast = NoId

NoTrace == [op |-> "None", level |-> TraceLevelOff, result |-> FALSE,
            pre |-> [i \in Tracers |-> <<>>], members |-> <<>>]
TracerIdle ==
  /\ ctracers = <<>>
  /\ mlevel = [i \in Tracers |-> TraceLevelOff]
  /\ mevents = [i \in Tracers |-> <<>>]
  /\ clast = NoTrace

NoSetContext == [op |-> "None", ctx |-> Nil, calls |-> <<>>, pre |-> <<Nil, Nil>>,
                 slots |-> <<Nil, Nil>>, target |-> SlotSkip]
ContextRouterIdle ==
  /\ kflavor = "multi"
  /\ knil = TRUE
  /\ kslots = <<Nil, Nil>>
  /\ ktarget = SlotSkip
  /\ kctx = <<Nil, Nil>>
  /\ klast = NoSetContext

\* The list.Model of a Menu: a value that is none of the items.
ListModel == NumAtoms + 1
NoSetCtx == [on |-> Nil, ctx |-> Nil]
NoMenuOp == [kind |-> "None", pre |-> <<Nil, Nil, Nil>>, pretarget |-> SlotSkip,
             cmd |-> NoCmd, calls |-> <<>>, setctx |-> NoSetCtx]
MenuIdle ==
  /\ gslots = <<Nil, Nil, Nil>>
  /\ gtarget = SlotSkip
  /\ gsel = Nil
  /\ gctx = Nil
  /\ ggone = TRUE
  /\ glast = NoMenuOp
  /\ gout = NoOut

NoHostOp == [kind |-> "None", ctx |-> Nil, prectx |-> Nil, pre |-> Nil, fwd |-> Nil,
             cmd |-> NoCmd, hostcmd |-> NoCmd, calls |-> <<>>]
ContextHostIdle ==
  /\ ostate = Nil
  /\ octx = Nil
  /\ ostatus = "none"
  /\ olast = NoHostOp

LaterIdle == MenuIdle /\ ContextHostIdle
LateIdle == RuntimeIdle /\ IdsIdle /\ TracerIdle /\ ContextRouterIdle /\ LaterIdle

\* ------------------------------------------------------------ the code
Active_bottom(s) == IF Len(s) = 0 THEN Nil ELSE s[1]
Active(s) == IF Len(s) = 0 THEN Nil ELSE s[Len(s)]

OptionalInit_never(atom) == [cmd |-> NoCmd, calls |-> <<>>]
OptionalInit(atom) ==
  IF atom \in Initializers
    THEN [cmd |-> InitCmd(atom), calls |-> <<InitCall(atom)>>]
    ELSE [cmd |-> NoCmd, calls |-> <<>>]

push_front(s, state) == IF state = Nil THEN s ELSE <<state>> \o s
push(s, state) == IF state = Nil THEN s ELSE Append(s, state)

pop_protected(s) ==
  IF Len(s) <= 1
    THEN [stack |-> s, ret |-> Nil]
    ELSE [stack |-> SubSeq(s, 1, Len(s) - 1), ret |-> Active(s)]
pop(s) ==
  IF Len(s) = 0
    THEN [stack |-> s, ret |-> Nil]
    ELSE [stack |-> SubSeq(s, 1, Len(s) - 1), ret |-> Active(s)]

replace_append(s, atom) == IF atom = Nil THEN s ELSE Append(s, atom)
replace_nilPops(s, atom) ==
  IF atom = Nil
    THEN SubSeq(s, 1, Len(s) - 1)
    ELSE IF Len(s) > 0 THEN [s EXCEPT ![Len(s)] = atom] ELSE Append(s, atom)
replace(s, atom) ==
  IF atom = Nil
    THEN s
    ELSE IF Len(s) > 0 THEN [s EXCEPT ![Len(s)] = atom] ELSE Append(s, atom)

\* h.stack[0] of an empty slice is an index out of range: a run-time panic.
reset(s, atom) ==
  IF atom = Nil
    THEN IF Len(s) = 0
           THEN [stack |-> s, panic |-> TRUE]
           ELSE [stack |-> <<s[1]>>, panic |-> FALSE]
    ELSE [stack |-> <<atom>>, panic |-> FALSE]

\* The result of a method of the stack.
Ret(s, c, cs, p) == [stack |-> s, cmd |-> c, calls |-> cs, panic |-> p]
Mutated(s) == LET i == OptionalInit(Active(s)) IN Ret(s, i.cmd, i.calls, FALSE)

\* Update's tail: a message that is none of the four.  (next, lcmd) is what
\* the active component's Update returns.
forward_popOnNil(s, m, next, lcmd) ==
  IF Active(s) = Nil
    THEN Ret(s, ErrChainEmpty, <<>>, FALSE)
    ELSE Ret(IF next = Nil THEN pop(s).stack ELSE replace(s, next), lcmd,
             <<UpdateCall(Active(s), m.kind, next)>>, FALSE)
forward(s, m, next, lcmd) ==
  IF Active(s) = Nil
    THEN Ret(s, ErrChainEmpty, <<>>, FALSE)
    ELSE Ret(replace(s, next), lcmd, <<UpdateCall(Active(s), m.kind, next)>>, FALSE)

Update(s, m, next, lcmd) ==
  CASE m.kind = "PushMsg" -> Mutated(push(s, m.State))
    [] m.kind = "ReplaceMsg" -> Mutated(replace(s, m.State))
    [] m.kind = "ResetMsg" ->
         LET r == reset(s, m.State)
         IN IF r.panic THEN Ret(s, NoCmd, <<>>, TRUE) ELSE Mutated(r.stack)
    [] m.kind = "PopMsg" -> Mutated(pop(s).stack)
    [] OTHER -> forward(s, m, next, lcmd)

ChainInit(s) == Mutated(s)

View_bottom(s) ==
  IF Len(s) = 0
    THEN [out |-> EmptyString, calls |-> <<>>]
    ELSE [out |-> ViewOf(s[1]), calls |-> <<ViewCall(s[1])>>]
View(s) ==
  IF Active(s) = Nil
    THEN [out |-> EmptyString, calls |-> <<>>]
    ELSE [out |-> ViewOf(Active(s)), calls |-> <<ViewCall(Active(s))>>]

\* ------------------------------------------------------------ the machine
NewChain(initial) ==
  /\ stack = <<initial>>
  /\ seed = initial
  /\ panicked = FALSE
  /\ cmd = NoCmd
  /\ out = NoOut
  /\ calls = <<>>
  /\ msg = [kind |-> "NewChain", State |-> initial]
  /\ pre = <<>>
  /\ msg2 = [kind |-> "None", State |-> Nil]
  /\ pre2 = <<>>

Init == RouterIdle /\ AutoIdle /\ LensIdle /\ NewIdle /\ LateIdle /\ \E initial \in Atoms : NewChain(initial)

Record(m) ==
  /\ msg' = m
  /\ pre' = stack
  /\ msg2' = msg
  /\ pre2' = pre
  /\ seed' = seed
  /\ UNCHANGED <<rvars, avars, lvars, nvars, wvars>>

\* h.Update(m), the active component answering (next, lcmd) if it is asked.
Dispatch(m, next, lcmd) ==
  LET r == Update(stack, m, next, lcmd)
  IN /\ Len(r.stack) <= MaxDepth
     /\ stack' = r.stack
     /\ cmd' = r.cmd
     /\ calls' = r.calls
     /\ panicked' = r.panic
     /\ out' = NoOut
     /\ Record(m)

DispatchPush ==
  /\ ~panicked
  /\ \E a \in AtomOrNil : Dispatch(PushMsg(a), Nil, NoCmd)

DispatchPop ==
  /\ ~panicked
  /\ Dispatch(PopMsg, Nil, NoCmd)

DispatchReplace ==
  /\ ~panicked
  /\ \E a \in AtomOrNil : Dispatch(ReplaceMsg(a), Nil, NoCmd)

DispatchReset ==
  /\ ~panicked
  /\ \E a \in AtomOrNil : Dispatch(ResetMsg(a), Nil, NoCmd)

DispatchOther ==
  /\ ~panicked
  /\ \E k \in OtherKinds, next \in AtomOrNil, lcmd \in LeafCmds :
       Dispatch(OtherMsg(k), next, lcmd)

CallInit ==
  /\ ~panicked
  /\ LET r == ChainInit(stack)
     IN /\ cmd' = r.cmd
        /\ calls' = r.calls
  /\ out' = NoOut
  /\ UNCHANGED <<stack, panicked>>
  /\ Record([kind |-> "Init", State |-> Nil])

CallView ==
  /\ ~panicked
  /\ LET r == View(stack)
     IN /\ out' = r.out
        /\ calls' = r.calls
  /\ cmd' = NoCmd
  /\ UNCHANGED <<stack, panicked>>
  /\ Record([kind |-> "View", State |-> Nil])

Next ==
  \/ DispatchPush
  \/ DispatchPop
  \/ DispatchReplace
  \/ DispatchReset
  \/ DispatchOther
  \/ CallInit
  \/ CallView

Spec == Init /\ [][Next]_vars

\* Only Push and Pop messages reach the stack.
NextPushPop ==
  \/ DispatchPush
  \/ DispatchPop

SpecPushPop == Init /\ [][NextPushPop]_vars

\* ------------------------------------------------------------ reading a state
TopOf(s) == IF s = <<>> THEN Nil ELSE s[Len(s)]
Front(s) == IF s = <<>> THEN <<>> ELSE SubSeq(s, 1, Len(s) - 1)
WithTop(s, a) == [i \in 1..Len(s) |-> IF i = Len(s) THEN a ELSE s[i]]
Dispatched == msg.kind \in StructuralKinds \cup OtherKinds

TypeOK ==
  /\ stack \in Seq(Atoms)
  /\ Len(stack) <= MaxDepth
  /\ panicked \in BOOLEAN
  /\ seed \in Atoms

\* ------------------------------------------------------------ claims

\* C1 (as stated): from a 1-element stack, after any sequence of Push and Pop
\* messages, the stack never has Depth() == 0.
C1_NeverEmpty == Len(stack) # 0

\* C1 (amended): under Push and Pop messages alone, a Pop dispatched at depth
\* d >= 1 removes exactly the top element, also when d = 1, which leaves depth
\* 0; a Pop at depth 0 changes nothing; and the stack becomes empty in no other
\* way than by a Pop dispatched at depth 1.
C1_PopRemovesTopAlsoLast ==
  /\ msg.kind = "PopMsg" => stack = Front(pre)
  /\ (Len(stack) = 0 /\ msg.kind # "NewChain" /\ Len(pre) > 0) =>
       (msg.kind = "PopMsg" /\ Len(pre) = 1)

C1_Witness == msg.kind = "PopMsg" /\ Len(pre) = 1 /\ Len(stack) = 0

\* C2: dispatching Reset with an absent component yields, from any state, the
\* 1-element stack that holds the seed component the stack was built with.
C2_ResetNilRestoresSeed ==
  (msg.kind = "ResetMsg" /\ msg.State = Nil) => (~panicked /\ stack = <<seed>>)

\* C3: Push(c) with c present makes c the active component one level deeper,
\* and a Pop that follows removes exactly c and restores the sequence the stack
\* had before the push.
C3_PushPopInverse ==
  /\ (msg.kind = "PushMsg" /\ msg.State # Nil) =>
       (TopOf(stack) = msg.State /\ Len(stack) = Len(pre) + 1)
  /\ (msg.kind = "PopMsg" /\ msg2.kind = "PushMsg" /\ msg2.State # Nil) =>
       (stack = pre2 /\ pre = pre2 \o <<msg2.State>>)

C3_Witness ==
  /\ msg.kind = "PopMsg" /\ msg2.kind = "PushMsg" /\ msg2.State # Nil
  /\ Len(pre2) = 2 /\ msg2.State # TopOf(pre2)
  /\ stack = pre2

\* C4: Replace(c) with c present on a stack of depth N >= 1 leaves the depth N,
\* makes c the top and leaves every element below the top as it was.
C4_ReplaceKeepsDepth ==
  (msg.kind = "ReplaceMsg" /\ msg.State # Nil /\ Len(pre) >= 1) =>
    /\ Len(stack) = Len(pre)
    /\ TopOf(stack) = msg.State
    /\ Front(stack) = Front(pre)

C4_Witness ==
  /\ msg.kind = "ReplaceMsg" /\ msg.State # Nil
  /\ Len(pre) = 2 /\ TopOf(pre) # msg.State
  /\ stack = WithTop(pre, msg.State)

\* C5: a non-structural event dispatched to a non-empty stack reaches the top
\* component's Update exactly once and no other element; the next component it
\* returns replaces the top, nothing below the top and not the depth changes,
\* and an absent next component leaves the stack exactly as it was.
C5_ForwardToTopOnly ==
  (msg.kind \in OtherKinds /\ Len(pre) >= 1) =>
    /\ Len(calls) = 1
    /\ calls[1].op = "Update"
    /\ calls[1].on = TopOf(pre)
    /\ calls[1].arg = msg.kind
    /\ stack = IF calls[1].ret = Nil THEN pre ELSE WithTop(pre, calls[1].ret)

C5_Witness ==
  /\ msg.kind \in OtherKinds /\ Len(pre) = 2
  /\ Len(calls) = 1 /\ calls[1].ret = Nil
  /\ stack = pre

\* C6: dispatching an event to a stack of depth 0 never panics.  (The claim
\* adds that every such dispatch returns the "stack is empty" error effect and
\* leaves the stack unchanged.)
C6_EmptyDispatchNeverPanics == (Dispatched /\ Len(pre) = 0) => ~panicked

\* C7: after a Push, Pop, Replace or Reset message that changes the active
\* component, Update returns the new active component's Init effect when that
\* component implements Initializer, and no effect otherwise.
C7_InitEffectOfNewActive ==
  (msg.kind \in StructuralKinds /\ ~panicked /\ TopOf(stack) # TopOf(pre)) =>
    cmd = IF TopOf(stack) \in Initializers THEN InitCmd(TopOf(stack)) ELSE NoCmd

C7_Witness ==
  /\ msg.kind = "PopMsg" /\ Len(pre) = 2
  /\ TopOf(stack) # TopOf(pre) /\ TopOf(stack) \in Initializers
  /\ cmd = InitCmd(TopOf(stack))

C9_AbsentPushReplaceNoop ==
  (msg.kind \in {"PushMsg", "ReplaceMsg"} /\ msg.State = Nil) => stack = pre

C9_Witness ==
  /\ msg.kind = "ReplaceMsg" /\ msg.State = Nil
  /\ Len(pre) = 2 /\ stack = pre

\* C10: View returns exactly what the top component's View returns, returns the
\* empty string without failing on an empty stack, and never changes the stack.
C10_ViewOfTop ==
  msg.kind = "View" =>
    /\ ~panicked
    /\ stack = pre
    /\ out = IF Len(pre) = 0 THEN EmptyString ELSE ViewOf(TopOf(pre))
    /\ calls = IF Len(pre) = 0 THEN <<>> ELSE <<ViewCall(TopOf(pre))>>

C10_Witness ==
  /\ msg.kind = "View" /\ Len(stack) = 2 /\ stack[1] # stack[2]
  /\ out = ViewOf(stack[2])

C10_WitnessEmpty == msg.kind = "View" /\ Len(stack) = 0 /\ out = EmptyString

\* ============================================================ slot routers
NSlots(fl) == IF fl = "Router3" THEN 3 ELSE 2
SlotsOf(fl) == 1..NSlots(fl)

\* What a slot's Update may return: a T, which is nil only for an interface T.
NextVals(kind) == IF kind = "struct" THEN TVals ELSE TVals \cup {Nil}

\* var t T
ZeroVal == 1
ZeroOf(kind) == IF kind = "struct" THEN ZeroVal ELSE Nil

\* slot.(T): the slot holds a value of type T.
IsT(x) == x \in TVals

\* The functions handed to Apply / Configure: leave *slot alone, assign it, or
\* compute it from what it holds.
Fns(kind) ==
  {[op |-> "keep", v |-> Nil], [op |-> "next", v |-> Nil]}
    \cup {[op |-> "set", v |-> x] : x \in NextVals(kind)}
FnApply(f, x) ==
  CASE f.op = "keep" -> x
    [] f.op = "set" -> f.v
    [] OTHER -> IF x \in TVals THEN (x % NumVals) + 1 ELSE x
FnCall(x, y) == [op |-> "fn", on |-> x, arg |-> "", ret |-> y]

\* A call on the value held by slot i, and the effect the call returned.
SlotCall(i, c, e) == [slot |-> i, call |-> c, eff |-> e]

RouteRet(sl, c, cs) == [slots |-> sl, cmd |-> c, calls |-> cs]

\* Route: (next, lcmd) is what the targeted slot's Update returns.
Route_both(fl, sl, tg, k, next, lcmd) ==
  IF tg \in SlotsOf(fl)
    THEN IF sl[tg] # Nil
           THEN RouteRet([i \in 1..3 |-> IF sl[i] # Nil /\ i \in SlotsOf(fl) THEN next ELSE sl[i]],
                         lcmd, <<SlotCall(tg, UpdateCall(sl[tg], k, next), lcmd)>>)
           ELSE RouteRet(sl, NoCmd, <<>>)
    ELSE RouteRet(sl, ErrUnknownSlot, <<>>)
Route_dropCmd(fl, sl, tg, k, next, lcmd) ==
  IF tg \in SlotsOf(fl)
    THEN IF sl[tg] # Nil
           THEN RouteRet([sl EXCEPT ![tg] = next], NoCmd, <<SlotCall(tg, UpdateCall(sl[tg], k, next), lcmd)>>)
           ELSE RouteRet(sl, NoCmd, <<>>)
    ELSE RouteRet(sl, ErrUnknownSlot, <<>>)
Route_absentIsUnknown(fl, sl, tg, k, next, lcmd) ==
  IF tg \in SlotsOf(fl) /\ sl[tg] # Nil
    THEN RouteRet([sl EXCEPT ![tg] = next], lcmd, <<SlotCall(tg, UpdateCall(sl[tg], k, next), lcmd)>>)
    ELSE RouteRet(sl, ErrUnknownSlot, <<>>)
Route(fl, sl, tg, k, next, lcmd) ==
  IF tg \in SlotsOf(fl)
    THEN IF sl[tg] # Nil
           THEN RouteRet([sl EXCEPT ![tg] = next], lcmd, <<SlotCall(tg, UpdateCall(sl[tg], k, next), lcmd)>>)
           ELSE RouteRet(sl, NoCmd, <<>>)
    ELSE RouteRet(sl, ErrUnknownSlot, <<>>)

Render(fl, sl, tg) ==
  IF tg \in SlotsOf(fl) /\ sl[tg] # Nil
    THEN [out |-> ViewOf(sl[tg]), slot |-> tg]
    ELSE [out |-> EmptyString, slot |-> SlotSkip]

SetTarget_init(sl, tg, slot) ==
  IF slot \in 1..3 /\ sl[slot] \in Initializers
    THEN [target |-> slot, cmd |-> InitCmd(sl[slot]),
          calls |-> <<SlotCall(slot, InitCall(sl[slot]), InitCmd(sl[slot]))>>]
    ELSE [target |-> slot, cmd |-> NoCmd, calls |-> <<>>]
SetTarget(sl, tg, slot) == [target |-> slot, cmd |-> NoCmd, calls |-> <<>>]

\* ApplyT / ApplyU / ApplyV and ConfigureA / ConfigureB (ConfigureT /
\* ConfigureU).  Only Dual, multi.Router and the later router.Router build a
\* zero value when the slot holds no T.
BuildsZero(fl) == fl = "Dual"
ApplySlots(fl) == IF fl = "Router3" THEN {SlotV} ELSE {SlotT, SlotU}
Apply(fl, kind, sl, i, f) ==
  IF IsT(sl[i])
    THEN [slots |-> [sl EXCEPT ![i] = FnApply(f, sl[i])],
          calls |-> <<SlotCall(i, FnCall(sl[i], FnApply(f, sl[i])), NoCmd)>>]
    ELSE IF BuildsZero(fl)
           THEN [slots |-> [sl EXCEPT ![i] = FnApply(f, ZeroOf(kind))],
                 calls |-> <<SlotCall(i, FnCall(ZeroOf(kind), FnApply(f, ZeroOf(kind))), NoCmd)>>]
           ELSE [slots |-> sl, calls |-> <<>>]

\* NewRouter / NewDual / New / NewRouter3.
NewRouter(fl, kind, sl, tg) ==
  /\ rflavor = fl
  /\ rkind = kind
  /\ rslots = sl
  /\ rtarget = tg
  /\ rlast = [NoOp EXCEPT !.op = "New", !.pre = sl, !.pretarget = tg]
  /\ rout = NoRender

StackIdle == NewChain(ZeroVal)

InitRouter ==
  /\ StackIdle /\ AutoIdle /\ LensIdle /\ NewIdle /\ LateIdle
  /\ \E fl \in Flavors, kind \in TypeKinds, tg \in Targets :
       \E sl \in [1..3 -> SlotVals] :
         /\ sl[3] # Nil => fl = "Router3"
         /\ NewRouter(fl, kind, sl, tg)

RFrame == UNCHANGED <<wvars, svars, avars, lvars, nvars, rflavor, rkind>>

RRoute ==
  \E k \in OtherKinds, next \in NextVals(rkind), lcmd \in LeafCmds :
    LET r == Route(rflavor, rslots, rtarget, k, next, lcmd)
    IN /\ rslots' = r.slots
       /\ rlast' = [op |-> "Route", arg |-> Nil, fn |-> Nil, pre |-> rslots,
                    pretarget |-> rtarget, cmd |-> r.cmd, calls |-> r.calls]
       /\ rout' = NoRender
       /\ UNCHANGED rtarget
       /\ RFrame

RRender ==
  /\ rout' = Render(rflavor, rslots, rtarget)
  /\ UNCHANGED <<rslots, rtarget, rlast>>
  /\ RFrame

RSetTarget ==
  \E slot \in Targets :
    LET r == SetTarget(rslots, rtarget, slot)
    IN /\ rtarget' = r.target
       /\ rlast' = [op |-> "SetTarget", arg |-> slot, fn |-> Nil, pre |-> rslots,
                    pretarget |-> rtarget, cmd |-> r.cmd, calls |-> r.calls]
       /\ rout' = NoRender
       /\ UNCHANGED rslots
       /\ RFrame

RApply ==
  \E i \in ApplySlots(rflavor), f \in Fns(rkind) :
    LET r == Apply(rflavor, rkind, rslots, i, f)
    IN /\ rslots' = r.slots
       /\ rlast' = [op |-> "Apply", arg |-> i, fn |-> f, pre |-> rslots,
                    pretarget |-> rtarget, cmd |-> NoCmd, calls |-> r.calls]
       /\ rout' = NoRender
       /\ UNCHANGED rtarget
       /\ RFrame

NextRouter ==
  \/ RRoute
  \/ RRender
  \/ RSetTarget
  \/ RApply

SpecRouter == InitRouter /\ [][NextRouter]_vars

\* Reading the router's last operation.
Routed == rlast.op = "Route"
Targeted == rlast.pretarget
TargetsSlot == Targeted \in 1..(IF rflavor = "Router3" THEN 3 ELSE 2)
TargetPresent == TargetsSlot /\ rlast.pre[Targeted] # Nil
Rendered == rout # NoRender

\* C11: Route with the target naming one slot invokes Update on no other slot
\* and changes no other slot, and Render renders no other slot: the
\* non-targeted slots stay exactly as they were.
C11_OtherSlotsInert ==
  /\ Routed =>
       /\ \A i \in 1..3 : i # Targeted => rslots[i] = rlast.pre[i]
       /\ \A j \in DOMAIN rlast.calls : rlast.calls[j].slot = Targeted
  /\ Rendered => rout.slot \in {SlotSkip, rtarget}

C11_Witness ==
  /\ Routed /\ Targeted = SlotT
  /\ rlast.pre[SlotU] # Nil /\ rlast.pre[SlotU] # rlast.pre[SlotT]
  /\ Len(rlast.calls) = 1
  /\ rslots[SlotT] # rlast.pre[SlotT]
  /\ rslots[SlotU] = rlast.pre[SlotU]

\* C12 as stated: when the target names a present slot, Route delivers the
\* event to that slot's Update exactly once, stores the returned value in that
\* slot, returns that slot's effect unchanged, and a following Render returns
\* that slot's View.
C12_RouteThenRenderView ==
  (Routed /\ TargetPresent) =>
    /\ Len(rlast.calls) = 1
    /\ rlast.calls[1].slot = Targeted
    /\ rlast.calls[1].call.op = "Update"
    /\ rlast.calls[1].call.on = rlast.pre[Targeted]
    /\ rslots[Targeted] = rlast.calls[1].call.ret
    /\ rlast.cmd = rlast.calls[1].eff
    /\ Rendered => (rout.slot = Targeted /\ rout.out = ViewOf(rlast.calls[1].call.ret))

\* C12 amended: the same, except that a following Render returns the View of
\* the stored value when Update returned a component, and the empty string
\* when Update returned the absent component (an interface-typed slot).
C12_RouteThenRender ==
  (Routed /\ TargetPresent) =>
    /\ Len(rlast.calls) = 1
    /\ rlast.calls[1].slot = Targeted
    /\ rlast.calls[1].call.op = "Update"
    /\ rlast.calls[1].call.on = rlast.pre[Targeted]
    /\ rslots[Targeted] = rlast.calls[1].call.ret
    /\ rlast.cmd = rlast.calls[1].eff
    /\ Rendered =>
         IF rlast.calls[1].call.ret # Nil
           THEN rout.slot = Targeted /\ rout.out = ViewOf(rlast.calls[1].call.ret)
           ELSE rout.out = EmptyString

C12_Witness ==
  /\ Routed /\ TargetPresent /\ Rendered
  /\ rlast.cmd = UserCmd
  /\ rslots[Targeted] # rlast.pre[Targeted]
  /\ rout.out = ViewOf(rslots[Targeted])

C13_WitnessSkip == Routed /\ Targeted = SlotSkip /\ rlast.cmd = ErrUnknownSlot

\* C14: SetTarget(t) only assigns the target: afterwards Target() is t, the
\* slots are unchanged, no slot's Init or Update is invoked and no effect is
\* produced.
C14_SetTargetAssignsOnly ==
  rlast.op = "SetTarget" =>
    /\ rtarget = rlast.arg
    /\ rslots = rlast.pre
    /\ rlast.calls = <<>>
    /\ rlast.cmd = NoCmd

C14_Witness ==
  /\ rlast.op = "SetTarget" /\ rlast.arg = SlotU /\ Targeted = SlotT
  /\ rslots[SlotU] \in Initializers /\ rtarget = SlotU

\* C15: applying a configuration function to a router slot calls fn once, on
\* the slot's current value or, when the slot is absent, on a newly built zero
\* value, and stores the result; the target and the other slots are unchanged.
C15_ApplyNeverDropped ==
  (rlast.op = "Apply" /\ rlast.pre[rlast.arg] # Foreign) =>
    LET cur == IF rlast.pre[rlast.arg] = Nil THEN ZeroOf(rkind) ELSE rlast.pre[rlast.arg]
    IN /\ Len(rlast.calls) = 1
       /\ rslots = [rlast.pre EXCEPT ![rlast.arg] = FnApply(rlast.fn, cur)]
       /\ rtarget = Targeted

\* ============================================================ auto.Auto
AutoSlotArgs == AutoSlots \cup {SlotInvalid}

AutoActive_primaryFirst(sl) ==
  IF sl[SlotPrimary] # Nil THEN SlotPrimary
  ELSE IF sl[SlotOverride] # Nil THEN SlotOverride
  ELSE SlotInvalid
AutoActive(sl) ==
  IF sl[SlotOverride] # Nil THEN SlotOverride
  ELSE IF sl[SlotPrimary] # Nil THEN SlotPrimary
  ELSE SlotInvalid

AutoSet(sl, slot, routable) ==
  IF slot \in AutoSlots THEN [sl EXCEPT ![slot] = routable] ELSE sl

AutoSetIfNil(sl, slot, routable) ==
  IF slot \in AutoSlots /\ sl[slot] = Nil THEN [sl EXCEPT ![slot] = routable] ELSE sl

ConfRet(v, cs, p) == [val |-> v, calls |-> cs, panic |-> p]
configureRoutable_dropAbsent(kind, r, f) ==
  IF r = Nil
    THEN ConfRet(Nil, <<>>, FALSE)
    ELSE IF IsT(r)
           THEN ConfRet(FnApply(f, r), <<FnCall(r, FnApply(f, r))>>, FALSE)
           ELSE ConfRet(r, <<>>, TRUE)
configureRoutable(kind, r, f) ==
  IF r = Nil
    THEN ConfRet(FnApply(f, ZeroOf(kind)),
                 <<FnCall(ZeroOf(kind), FnApply(f, ZeroOf(kind)))>>, FALSE)
    ELSE IF IsT(r)
           THEN ConfRet(FnApply(f, r), <<FnCall(r, FnApply(f, r))>>, FALSE)
           ELSE ConfRet(r, <<>>, TRUE)

AutoConfigure(kind, sl, slot, f) ==
  IF f = NilFn
    THEN [slots |-> sl, calls |-> <<>>, panic |-> FALSE]
    ELSE IF slot \in AutoSlots
           THEN LET c == configureRoutable(kind, sl[slot], f)
                IN [slots |-> IF c.panic THEN sl ELSE [sl EXCEPT ![slot] = c.val],
                    calls |-> [j \in DOMAIN c.calls |-> SlotCall(slot, c.calls[j], NoCmd)],
                    panic |-> c.panic]
           ELSE [slots |-> sl, calls |-> <<>>, panic |-> FALSE]

AutoRoute_primaryFirst(sl, k, next, lcmd) ==
  IF sl[SlotPrimary] # Nil
    THEN RouteRet([sl EXCEPT ![SlotPrimary] = next], lcmd,
                  <<SlotCall(SlotPrimary, UpdateCall(sl[SlotPrimary], k, next), lcmd)>>)
    ELSE IF sl[SlotOverride] # Nil
           THEN RouteRet([sl EXCEPT ![SlotOverride] = next], lcmd,
                         <<SlotCall(SlotOverride, UpdateCall(sl[SlotOverride], k, next), lcmd)>>)
           ELSE RouteRet(sl, NoCmd, <<>>)
AutoRoute_keepOnAbsent(sl, k, next, lcmd) ==
  IF sl[SlotOverride] # Nil
    THEN RouteRet([sl EXCEPT ![SlotOverride] = IF next = Nil THEN @ ELSE next], lcmd,
                  <<SlotCall(SlotOverride, UpdateCall(sl[SlotOverride], k, next), lcmd)>>)
    ELSE IF sl[SlotPrimary] # Nil
           THEN RouteRet([sl EXCEPT ![SlotPrimary] = next], lcmd,
                         <<SlotCall(SlotPrimary, UpdateCall(sl[SlotPrimary], k, next), lcmd)>>)
           ELSE RouteRet(sl, NoCmd, <<>>)
AutoRoute(sl, k, next, lcmd) ==
  IF sl[SlotOverride] # Nil
    THEN RouteRet([sl EXCEPT ![SlotOverride] = next], lcmd,
                  <<SlotCall(SlotOverride, UpdateCall(sl[SlotOverride], k, next), lcmd)>>)
    ELSE IF sl[SlotPrimary] # Nil
           THEN RouteRet([sl EXCEPT ![SlotPrimary] = next], lcmd,
                         <<SlotCall(SlotPrimary, UpdateCall(sl[SlotPrimary], k, next), lcmd)>>)
           ELSE RouteRet(sl, NoCmd, <<>>)

AutoRender_primaryFirst(sl) ==
  IF sl[SlotPrimary] # Nil
    THEN [out |-> ViewOf(sl[SlotPrimary]), slot |-> SlotPrimary]
    ELSE IF sl[SlotOverride] # Nil
           THEN [out |-> ViewOf(sl[SlotOverride]), slot |-> SlotOverride]
           ELSE [out |-> EmptyString, slot |-> SlotInvalid]
AutoRender(sl) ==
  IF sl[SlotOverride] # Nil
    THEN [out |-> ViewOf(sl[SlotOverride]), slot |-> SlotOverride]
    ELSE IF sl[SlotPrimary] # Nil
           THEN [out |-> ViewOf(sl[SlotPrimary]), slot |-> SlotPrimary]
           ELSE [out |-> EmptyString, slot |-> SlotInvalid]

\* History: the primary as it was when the override was set, kept while events
\* are routed with an override present and until the override is cleared by
\* Set(SlotOverride, nil) ("cleared") or its Update returns nil ("expired");
\* a Route that follows at once is "resumed".
Episode(ep, op, slot, v, presl, postsl) ==
  IF op = "Set" /\ slot = SlotOverride /\ v # Nil
    THEN IF ep.phase = "override"
           THEN ep
           ELSE [phase |-> "override", primary |-> presl[SlotPrimary], routed |-> FALSE]
    ELSE IF op = "Set" /\ slot = SlotOverride /\ v = Nil /\ ep.phase = "override"
           THEN [ep EXCEPT !.phase = "cleared"]
           ELSE IF op = "Route" /\ ep.phase = "override" /\ postsl[SlotOverride] # Nil
                  THEN [ep EXCEPT !.routed = TRUE]
                  ELSE IF op = "Route" /\ presl[SlotOverride] # Nil /\ postsl[SlotOverride] = Nil
                         THEN [phase |-> "expired",
                               primary |-> IF ep.phase = "override"
                                             THEN ep.primary ELSE presl[SlotPrimary],
                               routed |-> ep.routed]
                         ELSE IF op = "Route" /\ ep.phase = "expired"
                                THEN [ep EXCEPT !.phase = "resumed"]
                                ELSE NoEpisode

\* auto.New(prim, ovrd)
New(kind, prim, ovrd) ==
  /\ akind = kind
  /\ aslots = [s \in AutoSlots |-> IF s = SlotPrimary THEN prim ELSE ovrd]
  /\ apanicked = FALSE
  /\ alast = [AutoNoOp EXCEPT !.op = "New",
                              !.pre = [s \in AutoSlots |-> IF s = SlotPrimary THEN prim ELSE ovrd]]
  /\ aout = NoRender
  /\ aepisode = NoEpisode

InitAuto ==
  /\ StackIdle /\ RouterIdle /\ LensIdle /\ NewIdle /\ LateIdle
  /\ \E kind \in TypeKinds, prim \in SlotVals, ovrd \in SlotVals : New(kind, prim, ovrd)

AFrame == UNCHANGED <<wvars, svars, rvars, lvars, nvars, akind>>

ASet ==
  /\ ~apanicked
  /\ \E slot \in AutoSlotArgs, routable \in SlotVals :
       /\ aslots' = AutoSet(aslots, slot, routable)
       /\ alast' = [op |-> "Set", slot |-> slot, val |-> routable, fn |-> NilFn,
                    pre |-> aslots, cmd |-> NoCmd, calls |-> <<>>]
       /\ aepisode' = Episode(aepisode, "Set", slot, routable, aslots, aslots')
       /\ aout' = NoRender
       /\ UNCHANGED apanicked
       /\ AFrame

ASetIfNil ==
  /\ ~apanicked
  /\ \E slot \in AutoSlotArgs, routable \in SlotVals :
       /\ aslots' = AutoSetIfNil(aslots, slot, routable)
       /\ alast' = [op |-> "SetIfNil", slot |-> slot, val |-> routable, fn |-> NilFn,
                    pre |-> aslots, cmd |-> NoCmd, calls |-> <<>>]
       /\ aepisode' = Episode(aepisode, "SetIfNil", slot, routable, aslots, aslots')
       /\ aout' = NoRender
       /\ UNCHANGED apanicked
       /\ AFrame

AConfigure ==
  /\ ~apanicked
  /\ \E slot \in AutoSlotArgs, f \in Fns(akind) \cup {NilFn} :
       LET c == AutoConfigure(akind, aslots, slot, f)
       IN /\ aslots' = c.slots
          /\ apanicked' = c.panic
          /\ alast' = [op |-> "Configure", slot |-> slot, val |-> Nil, fn |-> f,
                       pre |-> aslots, cmd |-> NoCmd, calls |-> c.calls]
          /\ aepisode' = Episode(aepisode, "Configure", slot, Nil, aslots, aslots')
          /\ aout' = NoRender
          /\ AFrame

ARoute ==
  /\ ~apanicked
  /\ \E k \in OtherKinds, next \in NextVals(akind), lcmd \in LeafCmds :
       LET r == AutoRoute(aslots, k, next, lcmd)
       IN /\ aslots' = r.slots
          /\ alast' = [op |-> "Route", slot |-> SlotInvalid, val |-> Nil, fn |-> NilFn,
                       pre |-> aslots, cmd |-> r.cmd, calls |-> r.calls]
          /\ aepisode' = Episode(aepisode, "Route", SlotInvalid, Nil, aslots, aslots')
          /\ aout' = NoRender
          /\ UNCHANGED apanicked
          /\ AFrame

ARender ==
  /\ ~apanicked
  /\ aout' = AutoRender(aslots)
  /\ UNCHANGED <<aslots, apanicked, alast, aepisode>>
  /\ AFrame

NextAuto ==
  \/ ASet
  \/ ASetIfNil
  \/ AConfigure
  \/ ARoute
  \/ ARender

SpecAuto == InitAuto /\ [][NextAuto]_vars

\* Reading the Auto.
Present(sl, s) == sl[s] # Nil
ARouted == alast.op = "Route"
ARendered == aout # NoRender

\* C16: in every state of an Auto, Active() returns Override iff the override
\* is present, otherwise Primary iff the primary is present, otherwise Invalid.
C16_ActiveBySlotPresence ==
  /\ AutoActive(aslots) = SlotOverride <=> Present(aslots, SlotOverride)
  /\ AutoActive(aslots) = SlotPrimary <=>
       (~Present(aslots, SlotOverride) /\ Present(aslots, SlotPrimary))
  /\ AutoActive(aslots) = SlotInvalid <=>
       (~Present(aslots, SlotOverride) /\ ~Present(aslots, SlotPrimary))

C16_Witness ==
  /\ ARouted /\ Present(alast.pre, SlotOverride) /\ Present(alast.pre, SlotPrimary)
  /\ ~Present(aslots, SlotOverride)
  /\ AutoActive(aslots) = SlotPrimary

\* C17: while an override is present, routed events never reach or change the
\* primary: after set override, any number of routed events and clearing the
\* override, the primary is what it was before the override was set and
\* Active() is Primary again.
C17_OverrideShieldsPrimary ==
  /\ (ARouted /\ Present(alast.pre, SlotOverride)) =>
       /\ aslots[SlotPrimary] = alast.pre[SlotPrimary]
       /\ \A j \in DOMAIN alast.calls : alast.calls[j].slot = SlotOverride
  /\ aepisode.phase \in {"override", "cleared"} => aslots[SlotPrimary] = aepisode.primary
  /\ (aepisode.phase = "cleared" /\ aepisode.primary # Nil) =>
       AutoActive(aslots) = SlotPrimary

C17_Witness ==
  /\ aepisode.phase = "cleared" /\ aepisode.routed
  /\ aepisode.primary # Nil
  /\ aslots[SlotPrimary] = aepisode.primary
  /\ ~Present(aslots, SlotOverride)

\* C18: Auto.Route delivers each event to exactly the slot Active() reports
\* and Auto.Render returns that slot's View; when both slots are absent Route
\* returns the Auto unchanged with no effect and Render returns the empty
\* string.
C18_RouteRenderActive ==
  /\ ARouted =>
       IF AutoActive(alast.pre) = SlotInvalid
         THEN aslots = alast.pre /\ alast.cmd = NoCmd /\ alast.calls = <<>>
         ELSE /\ Len(alast.calls) = 1
              /\ alast.calls[1].slot = AutoActive(alast.pre)
              /\ alast.calls[1].call.op = "Update"
              /\ alast.calls[1].call.on = alast.pre[AutoActive(alast.pre)]
              /\ aslots = [alast.pre EXCEPT ![AutoActive(alast.pre)] = alast.calls[1].call.ret]
              /\ alast.cmd = alast.calls[1].eff
  /\ ARendered =>
       IF AutoActive(aslots) = SlotInvalid
         THEN aout.out = EmptyString
         ELSE aout.slot = AutoActive(aslots) /\ aout.out = ViewOf(aslots[AutoActive(aslots)])

C18_Witness ==
  /\ ARouted /\ ARendered
  /\ Present(alast.pre, SlotOverride) /\ Present(alast.pre, SlotPrimary)
  /\ alast.pre[SlotOverride] # alast.pre[SlotPrimary]
  /\ aslots[SlotOverride] # alast.pre[SlotOverride]
  /\ aout.out = ViewOf(aslots[SlotOverride])

C18_WitnessInvalid ==
  /\ ARouted /\ ARendered /\ AutoActive(alast.pre) = SlotInvalid /\ aout.out = EmptyString

C35_WitnessRender ==
  /\ aepisode.phase = "expired" /\ ARendered
  /\ aepisode.primary # Nil
  /\ aout.out = ViewOf(aepisode.primary)

\* C19 as stated: Configure(slot, fn) replaces only the named slot with fn
\* applied to its current value, or to a newly constructed zero value when the
\* slot is absent, which makes the slot present; it leaves the other slot
\* unchanged, and returns the Auto unchanged when fn is nil or the slot is
\* invalid.
C19_ConfigureMakesPresent ==
  alast.op = "Configure" =>
    IF alast.fn = NilFn \/ alast.slot \notin AutoSlots
      THEN aslots = alast.pre /\ alast.calls = <<>>
      ELSE LET cur == IF alast.pre[alast.slot] = Nil THEN ZeroOf(akind)
                      ELSE alast.pre[alast.slot]
           IN /\ ~apanicked
              /\ aslots = [alast.pre EXCEPT ![alast.slot] = FnApply(alast.fn, cur)]
              /\ Present(aslots, alast.slot)

\* C19 amended: Configure(slot, fn) replaces only the named slot with fn
\* applied to its current value when that is a T, or to a newly constructed
\* zero value when the slot is absent; the slot is present afterwards when T is
\* a struct type (the zero value of an interface type is the absent
\* component); Configure panics when the slot holds a Routable that is not a T;
\* it leaves the other slot unchanged, and returns the Auto unchanged when fn
\* is nil or the slot is invalid.
C19_Configure ==
  alast.op = "Configure" =>
    IF alast.fn = NilFn \/ alast.slot \notin AutoSlots
      THEN aslots = alast.pre /\ alast.calls = <<>> /\ ~apanicked
      ELSE IF alast.pre[alast.slot] = Foreign
             THEN apanicked /\ aslots = alast.pre
             ELSE LET cur == IF alast.pre[alast.slot] = Nil THEN ZeroOf(akind)
                             ELSE alast.pre[alast.slot]
                  IN /\ ~apanicked
                     /\ Len(alast.calls) = 1
                     /\ aslots = [alast.pre EXCEPT ![alast.slot] = FnApply(alast.fn, cur)]
                     /\ akind = "struct" => Present(aslots, alast.slot)

C19_Witness ==
  /\ alast.op = "Configure" /\ alast.slot = SlotOverride /\ alast.fn.op = "next"
  /\ ~Present(alast.pre, SlotOverride) /\ Present(alast.pre, SlotPrimary)
  /\ Present(aslots, SlotOverride)
  /\ aslots[SlotPrimary] = alast.pre[SlotPrimary]

C19_WitnessNilFn ==
  alast.op = "Configure" /\ alast.fn = NilFn /\ alast.slot = SlotPrimary /\ aslots = alast.pre

\* ============================================================ Lens
HookCall(h, active) == [hook |-> h, on |-> active]

\* Lens.Update(msg): (next, lcmd) is what the wrapped Update returns.  The
\* wrapped components are leaves, which resolve hands to the hooks as they are.
\* The call of the wrapped Update is listed among the hook calls.
LensUpdate(model, hooks, k, next, lcmd) ==
  LET typed == IF k = "error" /\ "OnError" \in hooks
                 THEN <<HookCall("OnError", model)>>
                 ELSE IF k = "TraceMsg" /\ "OnTrace" \in hooks
                        THEN <<HookCall("OnTrace", model)>>
                        ELSE <<>>
      before == IF "BeforeUpdate" \in hooks
                  THEN <<HookCall("BeforeUpdate", model)>>
                  ELSE <<>>
      after == IF "AfterUpdate" \in hooks
                 THEN <<HookCall("AfterUpdate", next)>>
                 ELSE <<>>
  IN IF model = Nil
       THEN [model |-> model, ret |-> LensRet(TRUE, Nil), cmd |-> NoCmd,
             hooks |-> typed \o before, panic |-> TRUE]
       ELSE [model |-> next, ret |-> LensRet(FALSE, next), cmd |-> lcmd,
             hooks |-> typed \o before \o <<HookCall("Update", model)>> \o after,
             panic |-> FALSE]

\* Lens.View(): polymer.Lens renders "" for a nil Model, trace.Lens calls View
\* on it.
LensView_hooked(fl, model, hooks) ==
  LET onview == IF "OnView" \in hooks THEN <<HookCall("OnView", model)>> ELSE <<>>
  IN IF model = Nil
       THEN IF fl = "polymer"
              THEN [model |-> model, out |-> EmptyString, hooks |-> onview, panic |-> FALSE]
              ELSE [model |-> model, out |-> NoOut, hooks |-> <<>>, panic |-> TRUE]
       ELSE [model |-> model,
             out |-> IF "OnView" \in hooks THEN EmptyString ELSE ViewOf(model),
             hooks |-> <<HookCall("View", model)>> \o onview, panic |-> FALSE]
LensView(fl, model, hooks) ==
  LET onview == IF "OnView" \in hooks THEN <<HookCall("OnView", model)>> ELSE <<>>
  IN IF model = Nil
       THEN IF fl = "polymer"
              THEN [model |-> model, out |-> EmptyString, hooks |-> onview, panic |-> FALSE]
              ELSE [model |-> model, out |-> NoOut, hooks |-> <<>>, panic |-> TRUE]
       ELSE [model |-> model, out |-> ViewOf(model),
             hooks |-> <<HookCall("View", model)>> \o onview, panic |-> FALSE]

\* NewLens(model, opts...)
NewLens(model, opts) ==
  /\ lmodel = model
  /\ lhooks = opts
  /\ lpanicked = FALSE
  /\ llast = NoUpdate
  /\ lout = NoView

InitLens ==
  /\ StackIdle /\ RouterIdle /\ AutoIdle /\ NewIdle /\ LateIdle
  /\ lflavor \in LensFlavors
  /\ \E model \in Atoms, opts \in SUBSET Hooks : NewLens(model, opts)

LFrame == UNCHANGED <<wvars, svars, rvars, avars, nvars, lflavor, lhooks>>

\* The owner calls Update on the Lens it holds.
LUpdate ==
  /\ ~lpanicked
  /\ \E k \in LensKinds, next \in AtomOrNil, lcmd \in LeafCmds :
       LET u == LensUpdate(lmodel, lhooks, k, next, lcmd)
       IN /\ lmodel' = u.model
          /\ lpanicked' = u.panic
          /\ llast' = [kind |-> k, pre |-> lmodel,
                       next |-> IF u.panic THEN Nil ELSE next,
                       lcmd |-> IF u.panic THEN NoCmd ELSE lcmd,
                       ret |-> u.ret, cmd |-> u.cmd, hooks |-> u.hooks]
          /\ lout' = NoView
          /\ LFrame

\* The owner calls View on the Lens it holds.
LView ==
  /\ ~lpanicked
  /\ LET v == LensView(lflavor, lmodel, lhooks)
     IN /\ lmodel' = v.model
        /\ lpanicked' = v.panic
        /\ lout' = [out |-> v.out, pre |-> lmodel, hooks |-> v.hooks]
        /\ UNCHANGED llast
        /\ LFrame

NextLens ==
  \/ LUpdate
  \/ LView

SpecLens == InitLens /\ [][NextLens]_vars

\* C20: Lens.Update returns the same effect as the wrapped component's Update,
\* and the Lens hands its owner the absent component exactly when the wrapped
\* component's Update returned the absent component.
C20_LensAbsentIffWrappedAbsent ==
  (llast.kind # "None" /\ ~lpanicked) =>
    /\ llast.cmd = llast.lcmd
    /\ llast.ret.absent <=> llast.next = Nil

C22_HookOrder ==
  llast.kind # "None" =>
    LET names == [j \in DOMAIN llast.hooks |-> llast.hooks[j].hook]
        typed == IF llast.kind = "error" /\ "OnError" \in lhooks THEN <<"OnError">>
                 ELSE IF llast.kind = "TraceMsg" /\ "OnTrace" \in lhooks THEN <<"OnTrace">>
                 ELSE <<>>
        before == IF "BeforeUpdate" \in lhooks THEN <<"BeforeUpdate">> ELSE <<>>
        after == IF "AfterUpdate" \in lhooks THEN <<"AfterUpdate">> ELSE <<>>
    IN names = typed \o before \o <<"Update">> \o after

\* ============================================================ resolve
\* The wrapper types of each package: *Lens, the Lens value that Lens.Update
\* returns, a Modal whose current component is another component, *Chain
\* (around its active component) and AtomDecorator.
Wrappers(fl) ==
  IF fl = "polymer" THEN {"PLens", "VLens", "Modal"}
                    ELSE {"PLens", "VLens", "Chain", "Deco"}

\* What the innermost wrapper holds: a component, nil (an empty Chain, a Lens
\* whose Model is nil, a Modal without a current component) or, in package
\* polymer, a Modal whose GetCurrent returns the Modal itself.
Leaves(fl) ==
  {[kind |-> "leaf", of |-> a] : a \in Atoms} \cup {NilTerm.leaf}
    \cup (IF fl = "polymer" THEN {[kind |-> "modalSelf", of |-> a] : a \in Atoms} ELSE {})

SeqsUpTo(S, n) == UNION {[1..k -> S] : k \in 0..n}
Terms(fl) == {Term(ws, l) : ws \in SeqsUpTo(Wrappers(fl), MaxNest), l \in Leaves(fl)}

Returns(t) == [state |-> "value", term |-> t]
Panics == [state |-> "panic", term |-> NilTerm]

\* resolve (lens.go) and resolve_atom (trace/lens.go, part_010).
RECURSIVE resolve_oneLevel(_, _)
resolve_oneLevel(fl, t) ==
  IF t.wraps = <<>>
    THEN Returns(t)
    ELSE LET cur == Term(Tail(t.wraps), t.leaf)
         IN IF fl = "polymer"
              THEN CASE Head(t.wraps) = "Modal" ->
                          IF cur = NilTerm THEN Panics ELSE Returns(cur)
                     [] Head(t.wraps) \in {"PLens", "VLens"} -> Returns(cur)
                     [] OTHER -> Returns(t)
              ELSE CASE Head(t.wraps) \in {"Chain", "Deco", "PLens"} -> Returns(cur)
                     [] OTHER -> Returns(t)
RECURSIVE resolve(_, _)
resolve(fl, t) ==
  IF t.wraps = <<>>
    THEN Returns(t)
    ELSE LET cur == Term(Tail(t.wraps), t.leaf)
         IN IF fl = "polymer"
              THEN CASE Head(t.wraps) = "Modal" ->
                          IF cur = NilTerm THEN Panics ELSE resolve(fl, cur)
                     [] Head(t.wraps) \in {"PLens", "VLens"} -> resolve(fl, cur)
                     [] OTHER -> Returns(t)
              ELSE CASE Head(t.wraps) \in {"Chain", "Deco", "PLens"} -> resolve(fl, cur)
                     [] OTHER -> Returns(t)

\* Lens.Update has a value receiver and returns l: the *Lens of NewLens comes
\* back as a Lens value, and so does every Lens directly inside it.
RECURSIVE LensUpdated(_)
LensUpdated(ws) ==
  IF ws = <<>> \/ Head(ws) \notin {"PLens", "VLens"}
    THEN ws
    ELSE <<"VLens">> \o LensUpdated(Tail(ws))

InitResolve ==
  /\ StackIdle /\ RouterIdle /\ AutoIdle /\ LensIdle /\ HostIdle /\ AtomIdle /\ AdapterIdle /\ LateIdle
  /\ xflavor \in LensFlavors
  /\ xterm \in Terms(xflavor)
  /\ xres = NoRes
  /\ xres2 = NoRes

XFrame == UNCHANGED <<wvars, svars, rvars, avars, lvars, hvars, tvars, dvars, xflavor>>

\* The owner of a Lens calls Update on it and keeps what it returns.
XLensUpdate ==
  /\ xres = NoRes
  /\ xterm.wraps # <<>> /\ Head(xterm.wraps) = "PLens"
  /\ xterm' = Term(LensUpdated(xterm.wraps), xterm.leaf)
  /\ UNCHANGED <<xres, xres2>>
  /\ XFrame

XResolve ==
  /\ xres = NoRes
  /\ xres' = resolve(xflavor, xterm)
  /\ UNCHANGED <<xterm, xres2>>
  /\ XFrame

XResolveAgain ==
  /\ xres.state = "value" /\ xres2 = NoRes
  /\ xres2' = resolve(xflavor, xres.term)
  /\ UNCHANGED <<xterm, xres>>
  /\ XFrame

NextResolve ==
  \/ XLensUpdate
  \/ XResolve
  \/ XResolveAgain

SpecResolve == InitResolve /\ [][NextResolve]_vars

\* C23: resolve returns the innermost non-wrapper component, through Lens
\* nesting of any depth (a Lens held as *Lens or as the Lens value returned by
\* Lens.Update), through a navigation stack to its top and through a modal
\* container to its current component.
C23_ResolveInnermost ==
  xres # NoRes => (xres.state = "value" /\ xres.term = Term(<<>>, xterm.leaf))

\* C24: resolve is idempotent: whenever resolve(x) returns, resolve of what it
\* returned returns the same component.
C24_ResolveIdempotent ==
  xres2 # NoRes => (xres2.state = "value" /\ xres2.term = xres.term)

C24_Witness ==
  /\ xres2 # NoRes /\ Len(xterm.wraps) = MaxNest
  /\ xres.term # xterm /\ xres2.term = xres.term
  /\ xres.term.leaf.kind = "leaf"

C24_WitnessLensValue ==
  /\ xres2 # NoRes /\ xflavor = "trace" /\ xres.term.wraps # <<>> /\ xres2.term = xres.term

\* ============================================================ Host
\* The events a Host tells apart.
HostKinds == {"error", "ctrl+c", "q", "TraceMsg"} \cup OtherKinds
\* tea.Quit
QuitCmd == [kind |-> "quit", of |-> Nil]

HostRet(st, status, absent, c, cs) ==
  [state |-> st, status |-> status, absent |-> absent, cmd |-> c, calls |-> cs]

\* Host.Update(msg): (next, lcmd) is what the root's Update returns.
\* polymer.Host quits on ctrl+c and q and forwards the rest; poly.Host calls
\* log.Fatal on an error, quits on ctrl+c, forwards the rest and returns
\* (nil, tea.Quit) when the root's Update returned nil.
HostUpdate(fl, st, k, next, lcmd) ==
  IF fl = "polymer"
    THEN IF k \in {"ctrl+c", "q"}
           THEN HostRet(st, "running", FALSE, QuitCmd, <<>>)
           ELSE IF st = Nil
                  THEN HostRet(st, "panicked", FALSE, NoCmd, <<>>)
                  ELSE HostRet(next, "running", FALSE, lcmd, <<UpdateCall(st, k, next)>>)
    ELSE IF k = "error"
           THEN HostRet(st, "exited", FALSE, NoCmd, <<>>)
           ELSE IF k = "ctrl+c"
                  THEN HostRet(st, "running", FALSE, QuitCmd, <<>>)
                  ELSE IF st = Nil
                         THEN HostRet(st, "panicked", FALSE, NoCmd, <<>>)
                         ELSE IF next = Nil
                                THEN HostRet(next, "gone", TRUE, QuitCmd,
                                             <<UpdateCall(st, k, next)>>)
                                ELSE HostRet(next, "running", FALSE, lcmd,
                                             <<UpdateCall(st, k, next)>>)

\* Host.View()
HostView(fl, st) ==
  IF st # Nil
    THEN [out |-> ViewOf(st), panic |-> FALSE]
    ELSE IF fl = "polymer"
           THEN [out |-> NoOut, panic |-> TRUE]
           ELSE [out |-> EmptyString, panic |-> FALSE]

\* NewHost(name, root): root is not nil.
NewHost(fl, root) ==
  /\ hflavor = fl
  /\ hstate = root
  /\ hstatus = "running"
  /\ hlast = HostNoOp
  /\ hout = NoOut

InitHost ==
  /\ StackIdle /\ RouterIdle /\ AutoIdle /\ LensIdle /\ ResolveIdle /\ AtomIdle /\ AdapterIdle /\ LateIdle
  /\ \E fl \in HostFlavors, root \in Atoms : NewHost(fl, root)

HFrame == UNCHANGED <<wvars, svars, rvars, avars, lvars, xvars, tvars, dvars, hflavor>>

\* The runtime delivers an event to the Host.
HUpdate ==
  /\ hstatus = "running"
  /\ \E k \in HostKinds, next \in AtomOrNil, lcmd \in LeafCmds :
       LET u == HostUpdate(hflavor, hstate, k, next, lcmd)
       IN /\ hstate' = u.state
          /\ hstatus' = u.status
          /\ hlast' = [kind |-> k, pre |-> hstate,
                       next |-> IF u.calls = <<>> THEN Nil ELSE next,
                       lcmd |-> IF u.calls = <<>> THEN NoCmd ELSE lcmd,
                       absent |-> u.absent, cmd |-> u.cmd, calls |-> u.calls]
          /\ hout' = NoOut
          /\ HFrame

\* The runtime asks the Host value for its View.
HView ==
  /\ hstatus \in {"running", "gone"}
  /\ LET v == HostView(hflavor, hstate)
     IN /\ hout' = v.out
        /\ hstatus' = IF v.panic THEN "panicked" ELSE hstatus
        /\ UNCHANGED <<hstate, hlast>>
        /\ HFrame

NextHost ==
  \/ HUpdate
  \/ HView

SpecHost == InitHost /\ [][NextHost]_vars

\* Reading the Host's last Update.
HUpdated == hlast.kind # "None" /\ hlast.pre # Nil

\* C25: an error event delivered to the Host is forwarded to the root
\* component's Update like any other event and never aborts the program.
C25_ErrorForwarded ==
  (HUpdated /\ hlast.kind = "error") =>
    /\ hstatus # "exited"
    /\ Len(hlast.calls) = 1
    /\ hlast.calls[1].on = hlast.pre
    /\ hlast.calls[1].arg = "error"

\* C26: Host.Update answers the ctrl+c and q key events with the quit effect
\* without forwarding them to the root component and without changing it;
\* every other event is forwarded to the root component's Update exactly once
\* and its effect is returned unchanged.
C26_QuitKeysElseForward ==
  HUpdated =>
    IF hlast.kind \in {"ctrl+c", "q"}
      THEN hlast.cmd = QuitCmd /\ hlast.calls = <<>> /\ hstate = hlast.pre
      ELSE /\ Len(hlast.calls) = 1
           /\ hlast.calls[1].on = hlast.pre
           /\ hlast.cmd = hlast.lcmd

\* C27: when the root component's Update returns absent, Host.Update returns
\* the quit effect, and View on a host whose root is absent returns the empty
\* string rather than failing.
C27_AbsentRootQuits ==
  /\ (HUpdated /\ Len(hlast.calls) = 1 /\ hlast.calls[1].ret = Nil) => hlast.cmd = QuitCmd
  /\ (hstate = Nil /\ hout # NoOut) => hout = EmptyString
  /\ (hstate = Nil /\ hlast.kind # "None") => hstatus # "panicked"

\* ============================================================ poly.Atom
AtomKinds == {"ContextMsg"} \cup OtherKinds
CtxVals == 1..NumVals
\* The models whose type has a SetContext method (ContextAware).
ContextAwares == {a \in Atoms : a % 2 = 0}
SetContextCall(a, ctx) == [op |-> "SetContext", on |-> a, ctx |-> ctx]

AtomRet(m, absent, c, cs, ctx) ==
  [model |-> m, absent |-> absent, cmd |-> c, calls |-> cs, ctx |-> ctx]

\* Atom.Update(msg): msg is of kind k and carries ctx when it is a ContextMsg;
\* (next, lcmd) is what the model's Update returns.  SetContext hands back the
\* model it was called on.
AtomUpdate_wrapNil(ver, model, held, k, ctx, next, lcmd) ==
  IF model = Nil
    THEN AtomRet(Nil, TRUE, NoCmd, <<>>, held)
    ELSE LET set == k = "ContextMsg" /\ (ver = "Atomic" \/ model \in ContextAwares)
             cs == (IF set THEN <<SetContextCall(model, ctx)>> ELSE <<>>)
                     \o <<UpdateCall(model, k, next)>>
         IN AtomRet(next, FALSE, lcmd, cs, IF set THEN ctx ELSE held)
AtomUpdate_ctxConsumed(ver, model, held, k, ctx, next, lcmd) ==
  IF model = Nil
    THEN AtomRet(Nil, TRUE, NoCmd, <<>>, held)
    ELSE LET set == k = "ContextMsg" /\ (ver = "Atomic" \/ model \in ContextAwares)
         IN IF set
              THEN AtomRet(model, FALSE, NoCmd, <<SetContextCall(model, ctx)>>, ctx)
              ELSE AtomRet(next, next = Nil, lcmd, <<UpdateCall(model, k, next)>>, held)
AtomUpdate(ver, model, held, k, ctx, next, lcmd) ==
  IF model = Nil
    THEN AtomRet(Nil, TRUE, NoCmd, <<>>, held)
    ELSE LET set == k = "ContextMsg" /\ (ver = "Atomic" \/ model \in ContextAwares)
             cs == (IF set THEN <<SetContextCall(model, ctx)>> ELSE <<>>)
                     \o <<UpdateCall(model, k, next)>>
         IN AtomRet(next, next = Nil, lcmd, cs, IF set THEN ctx ELSE held)

\* Atom.View()
AtomView(model) == IF model = Nil THEN EmptyString ELSE ViewOf(model)

\* NewAtom(model), or an Atom value whose Model is nil.
NewAtom(ver, model) ==
  /\ tversion = ver
  /\ tmodel = model
  /\ tctx = Nil
  /\ tlast = AtomNoOp
  /\ tout = NoOut

InitAtom ==
  /\ StackIdle /\ RouterIdle /\ AutoIdle /\ LensIdle /\ ResolveIdle /\ HostIdle /\ AdapterIdle /\ LateIdle
  /\ \E ver \in AtomVersions, model \in AtomOrNil : NewAtom(ver, model)

TFrame == UNCHANGED <<wvars, svars, rvars, avars, lvars, xvars, hvars, dvars, tversion>>

TUpdate ==
  \E k \in AtomKinds, ctx \in CtxVals, next \in AtomOrNil, lcmd \in LeafCmds :
    LET u == AtomUpdate(tversion, tmodel, tctx, k, ctx, next, lcmd)
    IN /\ tmodel' = u.model
       /\ tctx' = u.ctx
       /\ tlast' = [kind |-> k, ctx |-> IF k = "ContextMsg" THEN ctx ELSE Nil,
                    pre |-> tmodel,
                    next |-> IF tmodel = Nil THEN Nil ELSE next,
                    lcmd |-> IF tmodel = Nil THEN NoCmd ELSE lcmd,
                    absent |-> u.absent, cmd |-> u.cmd, calls |-> u.calls]
       /\ tout' = NoOut
       /\ TFrame

TView ==
  /\ tout' = AtomView(tmodel)
  /\ UNCHANGED <<tmodel, tctx, tlast>>
  /\ TFrame

NextAtom ==
  \/ TUpdate
  \/ TView

SpecAtom == InitAtom /\ [][NextAtom]_vars

\* Reading the adapter's last Update.
TUpdated == tlast.kind # "None"
TCalls(op) == {j \in DOMAIN tlast.calls : tlast.calls[j].op = op}

\* C28: Atom.Update on an adapter whose model is absent returns (absent, no
\* effect); when the model's Update returns absent the adapter returns absent
\* together with the model's effect; otherwise it returns an Atom wrapping the
\* next model with the model's effect; Atom.View of an absent model is the
\* empty string.
C28_AtomUpdateView ==
  /\ TUpdated =>
       IF tlast.pre = Nil
         THEN tlast.absent /\ tlast.cmd = NoCmd /\ tlast.calls = <<>>
         ELSE /\ Cardinality(TCalls("Update")) = 1
              /\ tlast.calls[Len(tlast.calls)].on = tlast.pre
              /\ tlast.cmd = tlast.lcmd
              /\ IF tlast.calls[Len(tlast.calls)].ret = Nil
                   THEN tlast.absent
                   ELSE ~tlast.absent /\ tmodel = tlast.calls[Len(tlast.calls)].ret
  /\ (tout # NoOut /\ tmodel = Nil) => tout = EmptyString

C28_Witness ==
  /\ TUpdated /\ tlast.pre # Nil /\ tlast.absent /\ tlast.cmd = UserCmd
  /\ tout = EmptyString

C28_WitnessWrap ==
  /\ TUpdated /\ tlast.pre # Nil /\ ~tlast.absent /\ tmodel # tlast.pre /\ tlast.cmd = UserCmd

\* C29 as stated: when a context-carrying event reaches the Atom adapter,
\* SetContext is invoked with the carried value iff the model implements the
\* context capability, and in both cases the same event is then forwarded to
\* the model's Update and an Atom is returned.
C29_ContextThenAtom ==
  (TUpdated /\ tlast.kind = "ContextMsg") =>
    /\ (TCalls("SetContext") # {}) <=> (tversion = "Atomic" \/ tlast.pre \in ContextAwares)
    /\ \A j \in TCalls("SetContext") : j = 1 /\ tlast.calls[j].ctx = tlast.ctx
    /\ Cardinality(TCalls("Update")) = 1
    /\ tlast.calls[Len(tlast.calls)].op = "Update"
    /\ tlast.calls[Len(tlast.calls)].arg = "ContextMsg"
    /\ ~tlast.absent

\* C29 amended: when a context-carrying event reaches an Atom adapter whose
\* model is present, SetContext is invoked with the carried value iff the
\* model implements the context capability, and in both cases the same event
\* is then forwarded to the model's Update; the adapter returns an Atom, or
\* absent when the model's Update returned absent.
C29_ContextThenForward ==
  (TUpdated /\ tlast.kind = "ContextMsg" /\ tlast.pre # Nil) =>
    /\ (TCalls("SetContext") # {}) <=> (tversion = "Atomic" \/ tlast.pre \in ContextAwares)
    /\ \A j \in TCalls("SetContext") :
         j = 1 /\ tlast.calls[j].ctx = tlast.ctx /\ tlast.calls[j].on = tlast.pre
    /\ Cardinality(TCalls("Update")) = 1
    /\ tlast.calls[Len(tlast.calls)].op = "Update"
    /\ tlast.calls[Len(tlast.calls)].on = tlast.pre
    /\ tlast.calls[Len(tlast.calls)].arg = "ContextMsg"
    /\ tlast.absent <=> tlast.calls[Len(tlast.calls)].ret = Nil

C29_Witness ==
  /\ TUpdated /\ tlast.kind = "ContextMsg" /\ tversion = "ContextAware"
  /\ tlast.pre \in Atoms \ ContextAwares
  /\ Len(tlast.calls) = 1 /\ ~tlast.absent

C29_WitnessAware ==
  /\ TUpdated /\ tlast.kind = "ContextMsg" /\ tversion = "ContextAware"
  /\ tlast.pre \in ContextAwares
  /\ Len(tlast.calls) = 2 /\ tctx = tlast.ctx

\* ============================================================ AtomAdapter
Names == [kind : {"given"}, of : 1..NumVals]
\* fmt.Sprintf("%T", m): the dynamic type of the wrapped model.
TypeName(m) == [kind |-> "type", of |-> IF m = Nil THEN Nil ELSE m % 2]

\* AtomAdapter.Name()
AtomAdapterName(model, name) == IF name # NoName THEN name ELSE TypeName(model)

\* AdaptModel(mode, cmd): the adapter it builds, as <<Model, AtomName>>.
AdaptModel(mode) == <<mode, NoName>>

\* AtomAdapter{Model: model, AtomName: name}
NewAtomAdapter(model, name) ==
  /\ dmodel = model
  /\ dname = name
  /\ dlast = [AdapterNoOp EXCEPT !.name0 = AtomAdapterName(model, name)]

InitAdapter ==
  /\ StackIdle /\ RouterIdle /\ AutoIdle /\ LensIdle /\ ResolveIdle /\ HostIdle /\ AtomIdle /\ LateIdle
  /\ \E model \in AtomOrNil, name \in Names \cup {NoName} : NewAtomAdapter(model, name)

DFrame == UNCHANGED <<wvars, svars, rvars, avars, lvars, xvars, hvars, tvars>>

\* AtomAdapter.Update(msg): a.Model.Update(msg) on an absent Model panics.
DUpdate ==
  /\ dlast.kind # "panic"
  /\ dlast.updates < MaxDepth
  /\ \E k \in OtherKinds, next \in AtomOrNil :
       IF dmodel = Nil
         THEN /\ dlast' = [dlast EXCEPT !.kind = "panic"]
              /\ UNCHANGED <<dmodel, dname>>
         ELSE /\ dmodel' = AdaptModel(next)[1]
              /\ dname' = AdaptModel(next)[2]
              /\ dlast' = [dlast EXCEPT !.kind = k, !.updates = @ + 1]
  /\ DFrame

\* A call of Name() on the adapter currently held.
DName ==
  /\ dlast.kind # "panic"
  /\ dlast' = [dlast EXCEPT !.name = AtomAdapterName(dmodel, dname)]
  /\ UNCHANGED <<dmodel, dname>>
  /\ DFrame

NextAdapter ==
  \/ DUpdate
  \/ DName

SpecAdapter == InitAdapter /\ [][NextAdapter]_vars

\* C30: for an AtomAdapter constructed with an AtomName, Name() returns the
\* same value after any number of Update calls.
C30_NameStable ==
  (dlast.name0.kind = "given" /\ dlast.name # NoName) => dlast.name = dlast.name0

\* ============================================================ the host runtime
(***************************************************************************)
(* The Chain as the root model of a tea.Program.  The runtime calls        *)
(* Update for every event; a tea.Cmd Update returns is run by the runtime  *)
(* and the tea.Msg it yields is passed to Update in turn.  The effects     *)
(* followed here are the four navigation effects of chain.go; they are     *)
(* delivered in any order.                                                 *)
(***************************************************************************)
MaxPending == 3

Push(atom) == [kind |-> "Push", of |-> atom]
Pop == [kind |-> "Pop", of |-> Nil]
Replace(atom) == [kind |-> "Replace", of |-> atom]
Reset(atom) == [kind |-> "Reset", of |-> atom]
NavCmds == {Pop} \cup {Push(a) : a \in AtomOrNil} \cup {Replace(a) : a \in AtomOrNil}
             \cup {Reset(a) : a \in AtomOrNil}

\* The message the effect's func() tea.Msg returns.
MsgOf(e) ==
  CASE e.kind = "Push" -> PushMsg(e.of)
    [] e.kind = "Replace" -> ReplaceMsg(e.of)
    [] e.kind = "Reset" -> ResetMsg(e.of)
    [] e.kind = "Pop" -> PopMsg

InitRuntime ==
  /\ RouterIdle /\ AutoIdle /\ LensIdle /\ NewIdle /\ IdsIdle /\ TracerIdle /\ ContextRouterIdle
  /\ LaterIdle
  /\ pending = {}
  /\ \E initial \in Atoms : NewChain(initial)

\* The runtime records the last call only.
QFrame == UNCHANGED <<rvars, avars, lvars, nvars, ivars, cvars, kvars, gvars, ovars, seed, msg2, pre2>>

\* The pushes in flight fit on the stack.
PushRoom(e) ==
  (e.kind = "Push" /\ e.of # Nil) =>
    (IF Len(stack) = 0 THEN 1 ELSE Len(stack))
      + Cardinality({p \in pending : p.kind = "Push" /\ p.of # Nil}) < MaxDepth

\* h.Update(m) called by the runtime, which keeps the effect it returns.
Run(m, next, lcmd, left) ==
  LET r == Update(stack, m, next, lcmd)
  IN /\ stack' = r.stack
     /\ cmd' = r.cmd
     /\ calls' = r.calls
     /\ panicked' = r.panic
     /\ out' = NoOut
     /\ msg' = m
     /\ pre' = stack
     /\ pending' = IF r.cmd \in NavCmds THEN left \cup {r.cmd} ELSE left
     /\ QFrame

\* An input event: the active component answers (next, lcmd).
RunUpdate ==
  /\ ~panicked
  /\ \E k \in OtherKinds, next \in AtomOrNil, lcmd \in NavCmds \cup {NoCmd} :
       /\ lcmd \in NavCmds =>
            /\ lcmd \notin pending
            /\ Cardinality(pending) < MaxPending
            /\ PushRoom(lcmd)
       /\ Run(OtherMsg(k), next, lcmd, pending)

\* The runtime has run effect e and passes its message to Update.
Deliver(e) ==
  /\ ~panicked
  /\ e \in pending
  /\ Run(MsgOf(e), Nil, NoCmd, pending \ {e})

NextRuntime ==
  \/ RunUpdate
  \/ \E e \in NavCmds : Deliver(e)

\* The fair runtime: every effect returned is run and its event delivered.
SpecRuntime ==
  /\ InitRuntime
  /\ [][NextRuntime]_vars
  /\ \A e \in NavCmds : WF_vars(Deliver(e))

\* C31: under a fair runtime a Push(c) effect with c present, returned by the
\* active component, is eventually dispatched to the Chain as a PushMsg and c
\* becomes the active component.
C31_PushEventuallyActive ==
  \A c \in Atoms :
    (Push(c) \in pending) ~> (msg = PushMsg(c) /\ TopOf(stack) = c)

\* ============================================================ util ids
(***************************************************************************)
(* The id counter of package util.  uint32 arithmetic is modelled at       *)
(* IdBits bits: the counter wraps at 2^IdBits as the code's wraps at 2^32. *)
(* A string is the sequence of its characters.                             *)
(***************************************************************************)
IdBits == 2
IdMod == 2 ^ IdBits

Prefixes == {<<"a">>, <<"a", "#", "1">>}
\* reflect.TypeOf((*T)(nil)).Elem().Name(): empty for an unnamed type (any).
IdTypes == {"any", "QuitAtom"}
TypeIdName(T) == IF T = "any" THEN <<>> ELSE <<"Q">>

\* %d
DigitChars == <<"0", "1", "2", "3", "4", "5", "6", "7", "8", "9">>
RECURSIVE Digits(_)
Digits(n) == IF n < 10 THEN <<DigitChars[n + 1]>> ELSE Digits(n \div 10) \o <<DigitChars[(n % 10) + 1]>>

\* GetNextId(): the value returned and the counter afterwards.
GetNextId(cur) == [id |-> cur, current |-> (cur + 1) % IdMod]

\* NewUniqueId(prefix): fmt.Sprintf("%s#%d", prefix, GetNextId())
NewUniqueId(prefix, cur) ==
  [id |-> prefix \o <<"#">> \o Digits(GetNextId(cur).id), current |-> GetNextId(cur).current]

\* NewUniqeTypeId[T]()
NewUniqeTypeId(T, cur) == NewUniqueId(TypeIdName(T), cur)

InitIds ==
  /\ StackIdle /\ RouterIdle /\ AutoIdle /\ LensIdle /\ NewIdle /\ RuntimeIdle /\ TracerIdle /\ ContextRouterIdle
  /\ LaterIdle
  /\ current = 1
  /\ issued = {}
  /\ ilast = NoId

IFrame == UNCHANGED <<svars, rvars, avars, lvars, nvars, qvars, cvars, kvars, gvars, ovars>>

Issue(id, r) ==
  /\ Cardinality(issued) < IdMod
  /\ current' = r.current
  /\ issued' = IF ilast = NoId THEN issued ELSE issued \cup {ilast}
  /\ ilast' = id
  /\ IFrame

CallGetNextId ==
  /\ Issue(Uint32Id(GetNextId(current).id), GetNextId(current))

CallNewUniqueId ==
  /\ \E prefix \in Prefixes : Issue(StringId(NewUniqueId(prefix, current).id), NewUniqueId(prefix, current))

CallNewUniqeTypeId ==
  /\ \E T \in IdTypes : Issue(StringId(NewUniqeTypeId(T, current).id), NewUniqeTypeId(T, current))

NextIds ==
  \/ CallGetNextId
  \/ CallNewUniqueId
  \/ CallNewUniqeTypeId

SpecIds == InitIds /\ [][NextIds]_vars

\* C32: every call of NewUniqueId, NewUniqeTypeId or GetNextId returns a
\* non-empty id that is distinct from every id returned by an earlier call.
C32_IdsDistinct ==
  ilast # NoId =>
    /\ ilast \notin issued
    /\ ilast.type = "string" => Len(ilast.str) > 0

\* ============================================================ CompositeTracer
\* MemoryTracer.IsEnabled(level) of a tracer whose level is lv
MemoryIsEnabled(lv, level) == level <= lv /\ level # TraceLevelOff

\* MemoryTracer.Trace(ctx, event): the events stored afterwards
MemoryTrace(events, lv, level) ==
  IF ~MemoryIsEnabled(lv, level) THEN events ELSE Append(events, level)

\* CompositeTracer.AddTracer(tracer)
AddTracer(ts, tracer) == Append(ts, tracer)

\* CompositeTracer.IsEnabled(level)
CompositeIsEnabled(ts, lvs, level) ==
  \E j \in 1..Len(ts) : MemoryIsEnabled(lvs[ts[j]], level)

\* CompositeTracer.Trace(ctx, event): the loop over ct.tracers from the j-th on
RECURSIVE CompositeTrace_firstOnly(_, _, _, _, _)
CompositeTrace_firstOnly(ts, lvs, evs, level, j) ==
  IF j > Len(ts)
    THEN evs
    ELSE IF MemoryIsEnabled(lvs[ts[j]], level)
           THEN [evs EXCEPT ![ts[j]] = MemoryTrace(@, lvs[ts[j]], level)]
           ELSE CompositeTrace_firstOnly(ts, lvs, evs, level, j + 1)
RECURSIVE CompositeTrace(_, _, _, _, _)
CompositeTrace(ts, lvs, evs, level, j) ==
  IF j > Len(ts)
    THEN evs
    ELSE CompositeTrace(ts, lvs,
           IF MemoryIsEnabled(lvs[ts[j]], level)
             THEN [evs EXCEPT ![ts[j]] = MemoryTrace(@, lvs[ts[j]], level)]
             ELSE evs,
           level, j + 1)

\* NewMemoryTracer(level) for every tracer, NewCompositeTracer(tracers...)
NewCompositeTracer(lvs, tracers) ==
  /\ mlevel = lvs
  /\ mevents = [i \in Tracers |-> <<>>]
  /\ ctracers = tracers
  /\ clast = NoTrace

InitTracer ==
  /\ StackIdle /\ RouterIdle /\ AutoIdle /\ LensIdle /\ NewIdle /\ RuntimeIdle /\ IdsIdle /\ ContextRouterIdle
  /\ LaterIdle
  /\ \E lvs \in [Tracers -> TraceLevels], tracers \in {<<>>} \cup {<<i>> : i \in Tracers} :
       NewCompositeTracer(lvs, tracers)

CFrame == UNCHANGED <<svars, rvars, avars, lvars, nvars, qvars, ivars, kvars, gvars, ovars, mlevel>>

CAddTracer ==
  /\ Len(ctracers) < NumVals
  /\ \E tracer \in Tracers :
       /\ ctracers' = AddTracer(ctracers, tracer)
       /\ clast' = [NoTrace EXCEPT !.op = "AddTracer", !.pre = mevents, !.members = ctracers]
  /\ UNCHANGED mevents
  /\ CFrame

CIsEnabled ==
  /\ \E level \in TraceLevels :
       clast' = [op |-> "IsEnabled", level |-> level,
                 result |-> CompositeIsEnabled(ctracers, mlevel, level),
                 pre |-> mevents, members |-> ctracers]
  /\ UNCHANGED <<ctracers, mevents>>
  /\ CFrame

CTrace ==
  /\ \A i \in Tracers : Len(mevents[i]) < NumVals - 1
  /\ \E level \in TraceLevels :
       /\ mevents' = CompositeTrace(ctracers, mlevel, mevents, level, 1)
       /\ clast' = [op |-> "Trace", level |-> level, result |-> FALSE,
                    pre |-> mevents, members |-> ctracers]
  /\ UNCHANGED ctracers
  /\ CFrame

NextTracer ==
  \/ CAddTracer
  \/ CIsEnabled
  \/ CTrace

SpecTracer == InitTracer /\ [][NextTracer]_vars

\* Reading the composite: the places of tracer i in the member list, and
\* whether a level is enabled for it.
PlacesOf(i) == {j \in DOMAIN ctracers : ctracers[j] = i}
EnabledFor(i, level) == level # TraceLevelOff /\ level <= mlevel[i]
Copies(level, n) == [j \in 1..n |-> level]

\* C33: CompositeTracer.IsEnabled(level) is true iff at least one member is
\* enabled for the level, and Trace(event) delivers the event to exactly the
\* members enabled for the event's level (once for each time the tracer is a
\* member), including members added later with AddTracer.
C33_CompositeTracer ==
  /\ clast.op = "IsEnabled" =>
       (clast.result <=> \E i \in Tracers : PlacesOf(i) # {} /\ EnabledFor(i, clast.level))
  /\ clast.op = "Trace" =>
       \A i \in Tracers :
         mevents[i] = clast.pre[i] \o
           Copies(clast.level, IF EnabledFor(i, clast.level) THEN Cardinality(PlacesOf(i)) ELSE 0)

\* An event delivered to the member added last with AddTracer and not to a
\* member that is not enabled for its level.
C33_Witness ==
  /\ clast.op = "Trace"
  /\ Len(ctracers) = NumVals
  /\ \E i \in Tracers :
       /\ Len(ctracers) \in PlacesOf(i)
       /\ Len(mevents[i]) > Len(clast.pre[i])
       /\ \E k \in Tracers \ {i} :
            PlacesOf(k) # {} /\ ~EnabledFor(k, clast.level) /\ mevents[k] = clast.pre[k]

\* ============================================================ SetContext on a router
(***************************************************************************)
(* multi.SetContext(r, ctx) and auto.SetContext(auto, ctx).  A slot holds  *)
(* a component or nil; the components in ContextAwares have a SetContext   *)
(* method (pointer receiver), which stores the context in the component.   *)
(***************************************************************************)
SetContextRet(held, cs) == [ctx |-> held, calls |-> cs]

\* The type assertion on slot j and the call it guards.
SetSlotContext(slots, r, ctx, j) ==
  IF slots[j] \in ContextAwares
    THEN SetContextRet([r.ctx EXCEPT ![j] = ctx], Append(r.calls, SetContextCall(slots[j], ctx)))
    ELSE r

SetContext_activeOnly(rnil, slots, active, held, ctx) ==
  IF rnil
    THEN SetContextRet(held, <<>>)
    ELSE IF active \in {1, 2}
           THEN SetSlotContext(slots, SetContextRet(held, <<>>), ctx, active)
           ELSE SetContextRet(held, <<>>)
SetContext(rnil, slots, active, held, ctx) ==
  IF rnil
    THEN SetContextRet(held, <<>>)
    ELSE SetSlotContext(slots, SetSlotContext(slots, SetContextRet(held, <<>>), ctx, 1), ctx, 2)

\* The slot Route and Render would use: the target of a multi.Router, and
\* for an Auto the override if present, else the primary (Auto.Active).
ActiveSlot(fl, slots, target) ==
  IF fl = "multi"
    THEN IF target = SlotT THEN 1 ELSE IF target = SlotU THEN 2 ELSE 0
    ELSE IF slots[2] # Nil THEN 2 ELSE IF slots[1] # Nil THEN 1 ELSE 0

NewContextRouter(fl, rnil, slots, target) ==
  /\ kflavor = fl
  /\ knil = rnil
  /\ kslots = slots
  /\ ktarget = target
  /\ kctx = <<Nil, Nil>>
  /\ klast = NoSetContext

InitContextRouter ==
  /\ StackIdle /\ RouterIdle /\ AutoIdle /\ LensIdle /\ NewIdle
  /\ RuntimeIdle /\ IdsIdle /\ TracerIdle /\ LaterIdle
  /\ \E fl \in ContextRouters, rnil \in BOOLEAN, s1 \in AtomOrNil, s2 \in AtomOrNil,
        target \in {SlotSkip, SlotT, SlotU} :
       /\ rnil => (s1 = Nil /\ s2 = Nil /\ target = SlotSkip)
       /\ fl = "auto" => target = SlotSkip
       /\ NewContextRouter(fl, rnil, <<s1, s2>>, target)

KFrame == UNCHANGED <<svars, rvars, avars, lvars, nvars, qvars, ivars, cvars, gvars, ovars, kflavor, knil>>

KSetContext ==
  /\ \E ctx \in CtxVals :
       LET r == SetContext(knil, kslots, ActiveSlot(kflavor, kslots, ktarget), kctx, ctx)
       IN /\ kctx' = r.ctx
          /\ klast' = [op |-> "SetContext", ctx |-> ctx, calls |-> r.calls, pre |-> kctx,
                       slots |-> kslots, target |-> ktarget]
  /\ UNCHANGED <<kslots, ktarget>>
  /\ KFrame

NextContextRouter ==
  \/ KSetContext

SpecContextRouter == InitContextRouter /\ [][NextContextRouter]_vars

\* C34: SetContext on a router delivers the context to each present slot
\* that implements ContextAware (both slots, not only the targeted or active
\* one), skips slots without the capability, is a no-op on a nil router, and
\* never changes the target or which slots are present.
C34_SetContextBothSlots ==
  klast.op = "SetContext" =>
    /\ \A j \in {1, 2} :
         IF ~knil /\ kslots[j] # Nil /\ kslots[j] % 2 = 0
           THEN /\ kctx[j] = klast.ctx
                /\ \E n \in DOMAIN klast.calls :
                     klast.calls[n] = SetContextCall(kslots[j], klast.ctx)
           ELSE /\ kctx[j] = klast.pre[j]
                /\ \A n \in DOMAIN klast.calls : klast.calls[n].on # kslots[j]
    /\ knil => klast.calls = <<>>
    /\ ktarget = klast.target
    /\ kslots = klast.slots

\* The context reached a capable slot that is not the active one, and the
\* other slot, which lacks the capability, was skipped.
C34_Witness ==
  /\ klast.op = "SetContext"
  /\ \E j \in {1, 2} :
       /\ j # ActiveSlot(kflavor, kslots, ktarget)
       /\ kslots[j] \in ContextAwares
       /\ kctx[j] = klast.ctx
       /\ kslots[3 - j] # Nil /\ kslots[3 - j] \notin ContextAwares
       /\ kctx[3 - j] = Nil

\* ============================================================ menu.Menu
(***************************************************************************)
(* Menu embeds a multi.Router whose SlotT is the list.Model and whose      *)
(* SlotU is the item activated with enter.  The router's code is Route and *)
(* Render of the slot routers above.                                       *)
(***************************************************************************)
MenuRet(sl, tg, gone, c, cs, sc) ==
  [slots |-> sl, target |-> tg, gone |-> gone, cmd |-> c, calls |-> cs, setctx |-> sc]

\* Menu.Update(msg).  sel is the list's SelectedItem(); (next, lcmd) is what
\* the Update of the routed slot returns (the list returns itself).
MenuUpdate(sl, tg, sel, ctx, k, next, lcmd) ==
  IF k = "enter" /\ tg = SlotT /\ sel # Nil
    THEN MenuRet([sl EXCEPT ![SlotU] = sel], SlotU, FALSE, OptionalInit(sel).cmd,
                 [j \in DOMAIN OptionalInit(sel).calls |->
                    SlotCall(SlotU, OptionalInit(sel).calls[j], OptionalInit(sel).cmd)],
                 IF sel \in ContextAwares THEN [on |-> sel, ctx |-> ctx] ELSE NoSetCtx)
    ELSE IF k = "esc" /\ tg = SlotT
           THEN MenuRet(sl, tg, TRUE, NoCmd, <<>>, NoSetCtx)
           ELSE LET tg1 == IF sl[SlotU] = Nil THEN SlotT ELSE tg
                    r == Route("Dual", sl, tg1, k, IF tg1 = SlotT THEN ListModel ELSE next, lcmd)
                IN MenuRet(r.slots, tg1, FALSE, r.cmd, r.calls, NoSetCtx)

\* Menu.View()
MenuView(sl, tg) == Render("Dual", sl, tg).out

\* NewMenu(title, items...), then SetContext(ctx) or not.
NewMenu(sel, ctx) ==
  /\ gslots = <<ListModel, Nil, Nil>>
  /\ gtarget = SlotT
  /\ gsel = sel
  /\ gctx = ctx
  /\ ggone = FALSE
  /\ glast = NoMenuOp
  /\ gout = NoOut

InitMenu ==
  /\ StackIdle /\ RouterIdle /\ AutoIdle /\ LensIdle /\ NewIdle
  /\ RuntimeIdle /\ IdsIdle /\ TracerIdle /\ ContextRouterIdle /\ ContextHostIdle
  /\ \E sel \in AtomOrNil, ctx \in CtxVals \cup {Nil} : NewMenu(sel, ctx)

GFrame == UNCHANGED <<svars, rvars, avars, lvars, nvars, qvars, ivars, cvars, kvars, ovars, gctx>>

GUpdate ==
  /\ ~ggone
  /\ \E k \in MenuKinds, next \in AtomOrNil, lcmd \in LeafCmds, sel \in AtomOrNil :
       LET u == MenuUpdate(gslots, gtarget, gsel, gctx, k, next, lcmd)
           listed == \E j \in DOMAIN u.calls : u.calls[j].slot = SlotT
       IN /\ gslots' = u.slots
          /\ gtarget' = u.target
          /\ ggone' = u.gone
          /\ gsel' = IF listed THEN sel ELSE gsel
          /\ glast' = [kind |-> k, pre |-> gslots, pretarget |-> gtarget,
                       cmd |-> u.cmd, calls |-> u.calls, setctx |-> u.setctx]
          /\ gout' = NoOut
  /\ GFrame

GView ==
  /\ ~ggone
  /\ gout' = MenuView(gslots, gtarget)
  /\ UNCHANGED <<gslots, gtarget, gsel, ggone, glast>>
  /\ GFrame

NextMenu ==
  \/ GUpdate
  \/ GView

SpecMenu == InitMenu /\ [][NextMenu]_vars

\* C36: after every Menu.Update that returns a present menu, the router
\* target names a present slot, so Menu.View never falls through to the empty
\* rendering while the list exists.
C36_TargetNamesPresentSlot ==
  /\ (glast.kind # "None" /\ ~ggone) =>
       /\ gtarget \in {SlotT, SlotU}
       /\ gslots[gtarget] # Nil
  /\ (gout # NoOut /\ gslots[SlotT] # Nil) => gout # EmptyString

\* ============================================================ ContextHost
\* The events a ContextHost tells apart: those of its Host and ContextMsg.
ContextHostKinds == HostKinds \cup {"ContextMsg"}
CtxOrNil == CtxVals \cup {Nil}

ContextHostRet(st, ctx, status, fwd, c, hc, cs) ==
  [state |-> st, ctx |-> ctx, status |-> status, fwd |-> fwd, cmd |-> c,
   hostcmd |-> hc, calls |-> cs]

\* ContextHost.Update(msg): c is the Context of a ContextMsg (Nil for the empty
\* message), (next, lcmd) is what the root's Update returns.  The type switch
\* declares a new msg, so the fill of an empty ContextMsg changes that copy and
\* h.Host.Update receives the message as it arrived; next.(Host) fails when
\* Host.Update returned nil.
ContextHostUpdate(st, ctx, k, c, next, lcmd) ==
  LET ctx1 == IF k = "ContextMsg" /\ c # Nil THEN c ELSE ctx
      fwd == IF k = "ContextMsg" THEN c ELSE Nil
      u == HostUpdate("poly", st, k, next, lcmd)
  IN IF u.status \in {"exited", "panicked"}
       THEN ContextHostRet(st, ctx1, u.status, fwd, NoCmd, u.cmd, u.calls)
       ELSE IF u.absent
              THEN ContextHostRet(st, ctx1, "panicked", fwd, NoCmd, u.cmd, u.calls)
              ELSE ContextHostRet(u.state, ctx1, "running", fwd, u.cmd, u.cmd, u.calls)

\* NewContextHost(name, root, ctx): root is not nil, ctx is held by address.
NewContextHost(root, ctx) ==
  /\ ostate = root
  /\ octx = ctx
  /\ ostatus = "running"
  /\ olast = NoHostOp

InitContextHost ==
  /\ StackIdle /\ RouterIdle /\ AutoIdle /\ LensIdle /\ NewIdle
  /\ RuntimeIdle /\ IdsIdle /\ TracerIdle /\ ContextRouterIdle /\ MenuIdle
  /\ \E root \in Atoms, ctx \in CtxVals : NewContextHost(root, ctx)

OFrame == UNCHANGED <<svars, rvars, avars, lvars, nvars, qvars, ivars, cvars, kvars, gvars>>

\* The runtime delivers an event to the ContextHost.
OUpdate ==
  /\ ostatus = "running"
  /\ \E k \in ContextHostKinds, c \in CtxOrNil, next \in AtomOrNil, lcmd \in LeafCmds :
       LET u == ContextHostUpdate(ostate, octx, k, c, next, lcmd)
       IN /\ (k # "ContextMsg" => c = Nil)
          /\ ostate' = u.state
          /\ octx' = u.ctx
          /\ ostatus' = u.status
          /\ olast' = [kind |-> k, ctx |-> c, prectx |-> octx, pre |-> ostate,
                       fwd |-> u.fwd, cmd |-> u.cmd, hostcmd |-> u.hostcmd,
                       calls |-> u.calls]
  /\ OFrame

NextContextHost == OUpdate

SpecContextHost == InitContextHost /\ [][NextContextHost]_vars

\* C37: ContextHost.Update returns for every event the effect the embedded
\* Host.Update returns, quit on ctrl+c and quit when the root's Update returns
\* absent included, and never panics.
C37_SameEffectNeverPanics ==
  olast.kind # "None" =>
    /\ ostatus # "panicked"
    /\ (ostatus = "running" => olast.cmd = olast.hostcmd)
    /\ (olast.kind = "ctrl+c" => olast.cmd = QuitCmd)

\* C38: the ContextHost always holds a context; a ContextMsg carrying a context
\* replaces the stored one; an empty ContextMsg leaves the stored context as it
\* was and reaches the root filled with it.
C38_EmptyContextFilled ==
  /\ ostatus # "none" => octx # Nil
  /\ (olast.kind = "ContextMsg" /\ olast.ctx # Nil) => octx = olast.ctx
  /\ (olast.kind = "ContextMsg" /\ olast.ctx = Nil /\ ostatus = "running") =>
       /\ octx = olast.prectx
       /\ Len(olast.calls) = 1
       /\ olast.fwd = octx

====
